---- MODULE Spec2Model ----
(***************************************************************************)
(* A model of the systemd D-Bus client of bodsch/ansible-collection-systemd *)
(* (plugins/module_utils/systemd.py): unit discovery (match_units), the    *)
(* two job-wait strategies (wait_job_poll, wait_job) behind                 *)
(* _wait_job_dispatch, and the client object with its operations on a unit  *)
(* (__init__, close, exists, the state and property reads, the lifecycle    *)
(* and install calls, on_unit_properties_changed).                          *)
(*                                                                         *)
(* Strings that the code takes apart (unit names, file paths, regular       *)
(* expressions, unit kinds) are sequences of character codes, so that       *)
(* splitting, basename, searching and sorting are computed.  Strings that   *)
(* the code only compares or lower-cases are TLA+ strings.                  *)
(***************************************************************************)
EXTENDS Integers, Sequences, FiniteSets, TLC

VARIABLES
    mgr_units,        \* the manager's reply to ListUnits(): a sequence of Unit rows
    mgr_unit_files,   \* the manager's reply to ListUnitFiles(): a sequence of UnitFile rows
    match_args,       \* the arguments of the last match_units call
    match_out,        \* the list the last match_units call returned
    match_err         \* the error the last match_units call raised ("" when it returned)

matchVars == <<mgr_units, mgr_unit_files, match_args, match_out, match_err>>

VARIABLES
    now,      \* time.monotonic(), in poll intervals
    glib,     \* whether the module imported GLib (GLib is not None)
    job,      \* the manager's job at job_path: whether it still exists, and its type
    unit,     \* the job's unit as the manager answers for it once the job is gone
    client,   \* per client: _glib_enabled, _signals_enabled, whether the JobRemoved receiver is registered
    inbox,    \* per client: the JobRemoved signals delivered to the connection and not yet dispatched
    wait      \* per client: the wait call in progress (arguments, position, locals, result)

waitVars == <<now, glib, job, unit, client, inbox, wait>>

VARIABLES
    mgr_unit,  \* the manager's side of the unit the operations name: loaded, installed, its states
    conn,      \* the client object: _bus and its receiver table, _glib_enabled, _signals_enabled,
               \* _signal_handlers, _unit_props_cache
    op         \* the last operation called on the client, its arguments and how it ended

clientVars == <<mgr_unit, conn, op>>

VARIABLES
    cb         \* the last PropertiesChanged signal on the bus and the callbacks it led to

signalVars == <<cb>>

VARIABLES
    disk,      \* the file at timer_path: whether it exists, and its bytes
    run        \* the last run of the systemd_timer module: its parameters and its result

timerVars == <<disk, run>>

VARIABLES
    tjobs,     \* the manager's jobs the threads wait for: whether each still exists, its type, its unit
    tunits,    \* the manager's units those jobs work on
    thread,    \* per thread: its wait_job_poll call on the shared client (arguments, position, locals, result)
    proxies    \* the Properties proxies the threads made, each with the object path it is bound to

threadVars == <<tjobs, tunits, thread, proxies>>

vars == <<matchVars, waitVars, clientVars, signalVars, timerVars, threadVars>>

(***************************************************************************)
(* Bounds of the model.                                                     *)
(***************************************************************************)
\* The two listings hold at most this many rows together.
MaxRows == 3

\* The clock stops at MaxTime.
MaxTime == 3

\* on_unit_properties_changed registers at most this many handlers.
MaxHandlers == 1

(***************************************************************************)
(* Python values.                                                           *)
(***************************************************************************)
\* Python's None where the code holds an Optional[str].
None == "None"

\* Python's None where the code holds an Optional[float].
NoneF == -1

\* re.IGNORECASE
IGNORECASE == 2

ENABLED_STATES == {"enabled", "enabled-runtime", "linked", "linked-runtime", "alias"}
MASKED_STATES == {"masked", "masked-runtime"}

(***************************************************************************)
(* str.lower() on the install-state strings of the model.                   *)
(***************************************************************************)
Lower(s) ==
    CASE s = "Masked" -> "masked"
      [] s = "ENABLED" -> "enabled"
      [] OTHER -> s

(***************************************************************************)
(* Character strings: sequences of code points.                             *)
(*   46 "."   47 "/"   94 "^"   65-90 "A"-"Z"   97-122 "a"-"z"              *)
(***************************************************************************)
IsUpper(c) == c >= 65 /\ c <= 90

LowerChar(c) == IF IsUpper(c) THEN c + 32 ELSE c

HasChar(s, c) == \E i \in 1..Len(s) : s[i] = c

\* The index of the last occurrence of c in s (0 when there is none).
LastIndex(s, c) ==
    IF HasChar(s, c)
    THEN CHOOSE i \in 1..Len(s) : s[i] = c /\ \A j \in (i+1)..Len(s) : s[j] # c
    ELSE 0

\* Python's str comparison: lexicographic on code points.
StrLess(a, b) ==
    \E i \in 1..(Len(a) + 1) :
        /\ \A k \in 1..(i-1) : k <= Len(b) /\ a[k] = b[k]
        /\ \/ i = Len(a) + 1 /\ Len(b) >= i
           \/ i <= Len(a) /\ i <= Len(b) /\ a[i] < b[i]

\* sorted(S) for a set of strings.
RECURSIVE sorted(_)
sorted(S) ==
    IF S = {} THEN <<>>
    ELSE LET m == CHOOSE x \in S : \A y \in S \ {x} : StrLess(x, y)
         IN <<m>> \o sorted(S \ {m})

\* os.path.basename(s) if "/" in s else s
basename_or_name(s) ==
    IF HasChar(s, 47) THEN SubSeq(s, LastIndex(s, 47) + 1, Len(s)) ELSE s

\* name.split(".")[-1] if "." in name else ""
kind_from_name(name) ==
    IF HasChar(name, 46) THEN SubSeq(name, LastIndex(name, 46) + 1, Len(name)) ELSE <<>>

(***************************************************************************)
(* re.compile(p, flags).search(s) for the patterns of the model: literal    *)
(* letters, "." (any character) and an optional leading "^".                *)
(***************************************************************************)
CharMatch(pc, c, flags) ==
    \/ pc = 46
    \/ IF flags = IGNORECASE THEN LowerChar(pc) = LowerChar(c) ELSE pc = c

search(p, flags, s) ==
    LET anchored == Len(p) > 0 /\ p[1] = 94
        body == IF anchored THEN Tail(p) ELSE p
        MatchAt(i) ==
            /\ i + Len(body) - 1 <= Len(s)
            /\ \A k \in 1..Len(body) : CharMatch(body[k], s[i + k - 1], flags)
    IN IF anchored THEN MatchAt(1) ELSE \E i \in 1..(Len(s) + 1) : MatchAt(i)

(***************************************************************************)
(* Bus faults and their mapping to the client's error types.                *)
(***************************************************************************)
NoSuchUnit == "org.freedesktop.systemd1.NoSuchUnit"
UnknownObject == "org.freedesktop.DBus.Error.UnknownObject"
AccessDenied == "org.freedesktop.DBus.Error.AccessDenied"
JobFailed == "org.freedesktop.systemd1.JobFailed"
NoSuchJob == "org.freedesktop.systemd1.NoSuchJob"
NoReply == "org.freedesktop.DBus.Error.NoReply"

Disconnected == "org.freedesktop.DBus.Error.Disconnected"
FileNotFound == "org.freedesktop.DBus.Error.FileNotFound"

\* name = getattr(e, "get_dbus_name", lambda: "")() or "": an exception
\* without a name (None) counts as the empty name.
MapDbusErrorUnknownObjectAsIO(name) ==
    LET n == IF name = None THEN "" ELSE name
    IN IF n = NoSuchUnit THEN "UnitNotFoundError"
       ELSE IF n = AccessDenied THEN "AccessDeniedError"
       ELSE IF n = JobFailed THEN "JobFailedError"
       ELSE "DBusIOError"

map_dbus_error(name) ==
    LET n == IF name = None THEN "" ELSE name
    IN IF n \in {NoSuchUnit, UnknownObject} THEN "UnitNotFoundError"
       ELSE IF n = AccessDenied THEN "AccessDeniedError"
       ELSE IF n = JobFailed THEN "JobFailedError"
       ELSE "DBusIOError"

(***************************************************************************)
(* Calls on the connection and the reading of a unit's properties.  A unit  *)
(* is what the manager holds for the name: whether it is loaded, whether a  *)
(* unit file for it is on disk, and its ActiveState and SubState.  A fault  *)
(* argument is the D-Bus error name a call ends with whatever the manager   *)
(* holds ("": the call is answered from the manager's state).               *)
(***************************************************************************)
\* The object path of the unit.
UnitPath == "/org/freedesktop/systemd1/unit/a_2eservice"

\* The D-Bus error name a call through the connection ends with ("": the
\* call returns): a closed connection fails every call.
BusCall(bus, fault, answer) ==
    IF bus # "open" THEN Disconnected
    ELSE IF fault # "" THEN fault
    ELSE answer

\* _get_unit_path: GetUnit(unit), and LoadUnit(unit) after any failure of it;
\* the error of LoadUnit is the one mapped.
GetUnitPathWithoutFallback(u, bus, f1, f2) ==
    LET e1 == BusCall(bus, f1, IF u.loaded THEN "" ELSE NoSuchUnit)
    IN IF e1 = "" THEN [path |-> UnitPath, name |-> "", calls |-> 1]
       ELSE [path |-> "", name |-> e1, calls |-> 1]

get_unit_path(u, bus, f1, f2) ==
    LET e1 == BusCall(bus, f1, IF u.loaded THEN "" ELSE NoSuchUnit)
        e2 == BusCall(bus, f2, IF u.loaded \/ u.installed THEN "" ELSE NoSuchUnit)
    IN IF e1 = "" THEN [path |-> UnitPath, name |-> "", calls |-> 1]
       ELSE IF e2 = "" THEN [path |-> UnitPath, name |-> "", calls |-> 2]
       ELSE [path |-> "", name |-> e2, calls |-> 2]

\* _props_iface_for_unit: the proxy of the path is taken from the cache or
\* made and put into it.
\* The entries of the cache for a path.  An entry is a path and the proxy
\* stored for it; a proxy is told by its number among those the connection
\* made.
Cached(cache, path) == {e \in cache : e.path = path}

PropsIfaceAlwaysMade(u, bus, cache, f1, f2) ==
    LET p == get_unit_path(u, bus, f1, f2)
        hit == Cached(cache, p.path)
        made == [path |-> p.path,
                 iface |-> IF hit = {} THEN Cardinality(cache) + 1
                           ELSE (CHOOSE e \in hit : TRUE).iface + 1]
    IN IF p.name # ""
       THEN [name |-> p.name, calls |-> p.calls, cache |-> cache, iface |-> 0]
       ELSE [name |-> "", calls |-> p.calls, cache |-> (cache \ hit) \cup {made},
             iface |-> made.iface]

props_iface_for_unit(u, bus, cache, f1, f2) ==
    LET p == get_unit_path(u, bus, f1, f2)
        hit == Cached(cache, p.path)
        made == [path |-> p.path, iface |-> Cardinality(cache) + 1]
    IN IF p.name # ""
       THEN [name |-> p.name, calls |-> p.calls, cache |-> cache, iface |-> 0]
       ELSE IF hit # {}
       THEN [name |-> "", calls |-> p.calls, cache |-> cache,
             iface |-> (CHOOSE e \in hit : TRUE).iface]
       ELSE [name |-> "", calls |-> p.calls, cache |-> cache \cup {made},
             iface |-> made.iface]

\* _get_unit_prop_str(unit, prop)
get_unit_prop_str(u, bus, cache, f1, f2, f3, prop) ==
    LET pi == props_iface_for_unit(u, bus, cache, f1, f2)
        e3 == BusCall(bus, f3, "")
    IN IF pi.name # ""
       THEN [raised |-> map_dbus_error(pi.name), value |-> "", calls |-> pi.calls,
             cache |-> pi.cache]
       ELSE IF e3 # ""
       THEN [raised |-> map_dbus_error(e3), value |-> "", calls |-> pi.calls + 1,
             cache |-> pi.cache]
       ELSE [raised |-> "",
             value |-> IF prop = "ActiveState" THEN u.active_state ELSE u.sub_state,
             calls |-> pi.calls + 1, cache |-> pi.cache]

\* active_state(unit, default=...)
ActiveStateDefaultOnAnyError(u, bus, cache, f1, f2, f3, default) ==
    LET r == get_unit_prop_str(u, bus, cache, f1, f2, f3, "ActiveState")
    IN IF r.raised # "" /\ default # None
       THEN [r EXCEPT !.raised = "", !.value = default]
       ELSE r

active_state(u, bus, cache, f1, f2, f3, default) ==
    LET r == get_unit_prop_str(u, bus, cache, f1, f2, f3, "ActiveState")
    IN IF r.raised = "UnitNotFoundError" /\ default # None
       THEN [r EXCEPT !.raised = "", !.value = default]
       ELSE r

\* sub_state(unit, default=...)
sub_state(u, bus, cache, f1, f2, f3, default) ==
    LET r == get_unit_prop_str(u, bus, cache, f1, f2, f3, "SubState")
    IN IF r.raised = "UnitNotFoundError" /\ default # None
       THEN [r EXCEPT !.raised = "", !.value = default]
       ELSE r

(***************************************************************************)
(* match_units                                                              *)
(***************************************************************************)
\* The filter both listings go through: the kind is in types and some
\* compiled pattern is found in the name.
PassesFilter(name, patterns, types, flags) ==
    /\ kind_from_name(name) \in types
    /\ \E r \in 1..Len(patterns) : search(patterns[r], flags, name)

\* live = {u.name: u for u in list_units() if ...}: a later row replaces an
\* earlier row of the same name.
LiveOf(units, patterns, types, flags) ==
    LET keep == {i \in 1..Len(units) : PassesFilter(units[i].name, patterns, types, flags)}
        last(n) == CHOOSE i \in keep : units[i].name = n
                       /\ \A j \in keep : units[j].name = n => j <= i
    IN [n \in {units[i].name : i \in keep} |-> units[last(n)]]

\* The rows of the unit-file loop that pass the filter.
FileKeep(file_rows, patterns, types, flags) ==
    {i \in 1..Len(file_rows) :
        PassesFilter(basename_or_name(file_rows[i].path), patterns, types, flags)}

\* file_state_by_name: the state of the last passing row of each name.
FileStateByName(file_rows, patterns, types, flags) ==
    LET keep == FileKeep(file_rows, patterns, types, flags)
        nm(i) == basename_or_name(file_rows[i].path)
        last(n) == CHOOSE i \in keep : nm(i) = n /\ \A j \in keep : nm(j) = n => j <= i
    IN [n \in {nm(i) : i \in keep} |-> file_rows[last(n)].state]

\* names = sorted(set(live.keys()) | candidates_from_files)
NamesConcatenated(live, by_name) == sorted(DOMAIN live) \o sorted(DOMAIN by_name)

Names(live, by_name) == sorted(DOMAIN live \cup DOMAIN by_name)

\* file_state = (file_state_by_name.get(name) or "").lower() or None
FileState(by_name, name) ==
    LET raw == IF name \in DOMAIN by_name THEN by_name[name] ELSE ""
        low == Lower(raw)
    IN IF low = "" THEN None ELSE low

IsMasked(file_state) == file_state \in MASKED_STATES

IsEnabledAnyButDisabled(file_state) == file_state # None /\ file_state # "disabled"

IsEnabled(file_state) == (file_state \in ENABLED_STATES) /\ ~IsMasked(file_state)

\* The UnitStatus of a unit file that is not loaded.
InactiveStatusAsLoaded(name, file_state) ==
    [name |-> name, kind |-> kind_from_name(name), description |-> "",
     active_state |-> "inactive", sub_state |-> "dead",
     unit_file_state |-> file_state, load_state |-> "loaded",
     is_enabled |-> IsEnabled(file_state), is_masked |-> IsMasked(file_state)]

InactiveStatus(name, file_state) ==
    [name |-> name, kind |-> kind_from_name(name), description |-> "",
     active_state |-> "inactive", sub_state |-> "dead",
     unit_file_state |-> file_state, load_state |-> None,
     is_enabled |-> IsEnabled(file_state), is_masked |-> IsMasked(file_state)]

\* The UnitStatus of a live unit.
LiveStatusSynthesized(u, file_state) ==
    [name |-> u.name, kind |-> kind_from_name(u.name), description |-> "",
     active_state |-> "inactive", sub_state |-> "dead",
     unit_file_state |-> file_state, load_state |-> None,
     is_enabled |-> IsEnabled(file_state), is_masked |-> IsMasked(file_state)]

LiveStatus(u, file_state) ==
    [name |-> u.name, kind |-> kind_from_name(u.name), description |-> u.description,
     active_state |-> u.active_state, sub_state |-> u.sub_state,
     unit_file_state |-> file_state, load_state |-> u.load_state,
     is_enabled |-> IsEnabled(file_state), is_masked |-> IsMasked(file_state)]

\* The rows of ListUnitFiles() the call looks at.
FileRowsIgnoringFlag(files, include_inactive_files) == files

FileRows(files, include_inactive_files) ==
    IF include_inactive_files THEN files ELSE <<>>

match_units(units, files, patterns, types, flags, include_inactive_files) ==
    LET live == LiveOf(units, patterns, types, flags)
        file_rows == FileRows(files, include_inactive_files)
        by_name == FileStateByName(file_rows, patterns, types, flags)
        names == Names(live, by_name)
    IN [i \in 1..Len(names) |->
            LET name == names[i]
                file_state == FileState(by_name, name)
            IN IF name \in DOMAIN live
               THEN LiveStatus(live[name], file_state)
               ELSE InactiveStatus(name, file_state)]

(***************************************************************************)
(* The inputs of the discovery model.                                       *)
(***************************************************************************)
\* "a.s", "B.s", "a.x", "ab"
UnitNames == {<<97, 46, 115>>, <<66, 46, 115>>, <<97, 46, 120>>, <<97, 98>>}

UnitRows ==
    {[name |-> n, description |-> "d", load_state |-> "loaded",
      active_state |-> "active", sub_state |-> "running"] : n \in UnitNames}
    \cup
    {[name |-> <<97, 46, 115>>, description |-> "e", load_state |-> "loaded",
      active_state |-> "failed", sub_state |-> "failed"]}

\* "/e/a.s", "B.s", "/l/b.t"
FilePaths == {<<47, 101, 47, 97, 46, 115>>, <<66, 46, 115>>, <<47, 108, 47, 98, 46, 116>>}

FileStates == {"enabled", "Masked", ""}

FileRowSet == {[path |-> p, state |-> s] : p \in FilePaths, s \in FileStates}

SeqsUpTo(S, n) == UNION {[1..k -> S] : k \in 0..n}

\* <<>>, <<"^a">>, <<"b">>, <<"^a", "s">>
PatternLists == {<< >>, << <<94, 97>> >>, << <<98>> >>, << <<94, 97>>, <<115>> >>}

\* {"s", "t"}, {"s"}
TypeSets == {{<<115>>, <<116>>}, {<<115>>}}

NoCall == [called |-> FALSE, patterns |-> << >>, types |-> {}, flags |-> 0,
           include_inactive_files |-> FALSE]

(***************************************************************************)
(* Waiting for a job: the manager's side.                                   *)
(***************************************************************************)
\* The clients, each with one wait call.
Waiters == {1}

\* The object path of the job waited for, and of some other job.
JobPath == "/org/freedesktop/systemd1/job/1"
OtherJobPath == "/org/freedesktop/systemd1/job/2"

JobTypes == {"start", "stop"}

\* The result argument of JobRemoved.
JobResults == {"done", "canceled", "dependency", "timeout", "skipped", "failed"}

\* The fault names a bus call can end with whatever the state of the manager
\* ("" stands for an answered call).
BusFaults == {AccessDenied, NoReply}
MaybeFault == {""} \cup BusFaults

\* timeout_sec
Timeouts == {NoneF, 0, 1, 2}

\* The unit of the job once the job is gone: not resolvable at all, or with
\* its ActiveState and, for a service, Type and ExecMainStatus.
NoUnit == [exists |-> FALSE, active_state |-> "", type |-> "", exec_status |-> 0]

Units ==
    {NoUnit}
    \cup
    {u \in [exists : {TRUE}, active_state : {"active", "activating", "inactive", "failed"},
            type : {"oneshot", "simple", ""}, exec_status : {0, 1}] :
        u.type = "" => u.exec_status = 0}

\* time.sleep(poll_interval), in units of the poll interval
poll_interval == 1

Min(a, b) == IF a <= b THEN a ELSE b

(***************************************************************************)
(* Waiting for a job: the client's functions.                               *)
(***************************************************************************)
Return(value) == [ret |-> value, exc |-> "", exc_result |-> ""]
Raise(type, result) == [ret |-> "", exc |-> type, exc_result |-> result]

\* _wait_job_dispatch: the method the call goes to.
DispatchOnGLibAlone(glib_enabled, GLib) ==
    IF GLib THEN "wait_job" ELSE "wait_job_poll"

wait_job_dispatch(glib_enabled, GLib) ==
    IF glib_enabled /\ GLib THEN "wait_job" ELSE "wait_job_poll"

\* The D-Bus error name of a property read on the job object ("": answered).
JobReadAnyFaultAsGone(job_exists, fault) ==
    IF fault # "" \/ ~job_exists THEN UnknownObject ELSE ""

JobRead(job_exists, fault) ==
    IF fault # "" THEN fault
    ELSE IF ~job_exists THEN UnknownObject
    ELSE ""

\* deadline = time.monotonic() + timeout_sec if timeout_sec else None
PollDeadlineAlways(t0, timeout_sec) ==
    IF timeout_sec # NoneF /\ timeout_sec # 0 THEN t0 + timeout_sec ELSE t0

PollDeadline(t0, timeout_sec) ==
    IF timeout_sec # NoneF /\ timeout_sec # 0 THEN t0 + timeout_sec ELSE NoneF

\* if deadline is not None and time.monotonic() >= deadline
DeadlinePassed(deadline, t) == deadline # NoneF /\ t >= deadline

\* subscribe(): Subscribe() is called and, when it is answered,
\* _signals_enabled set; its error is mapped and raised.
SubscribeFlagBeforeCall(bus, signals_enabled, fault) ==
    LET e == BusCall(bus, fault, "")
    IN IF e = "" THEN [signals_enabled |-> TRUE, raised |-> ""]
       ELSE [signals_enabled |-> TRUE, raised |-> map_dbus_error(e)]

subscribe(bus, signals_enabled, fault) ==
    LET e == BusCall(bus, fault, "")
    IN IF e = "" THEN [signals_enabled |-> TRUE, raised |-> ""]
       ELSE [signals_enabled |-> signals_enabled, raised |-> map_dbus_error(e)]

\* unsubscribe(): Unsubscribe() is called and, when it is answered,
\* _signals_enabled cleared; its error is mapped and raised.
UnsubscribeFlagBeforeCall(bus, signals_enabled, fault) ==
    LET e == BusCall(bus, fault, "")
    IN IF e = "" THEN [signals_enabled |-> FALSE, raised |-> ""]
       ELSE [signals_enabled |-> FALSE, raised |-> map_dbus_error(e)]

unsubscribe(bus, signals_enabled, fault) ==
    LET e == BusCall(bus, fault, "")
    IN IF e = "" THEN [signals_enabled |-> FALSE, raised |-> ""]
       ELSE [signals_enabled |-> signals_enabled, raised |-> map_dbus_error(e)]

\* "if not self._signals_enabled: self.subscribe()" of wait_job and
\* on_unit_properties_changed; issued tells whether Subscribe() was called.
subscribe_if_disabled(bus, signals_enabled, fault) ==
    IF signals_enabled
    THEN [signals_enabled |-> signals_enabled, raised |-> "", issued |-> FALSE]
    ELSE LET s == subscribe(bus, signals_enabled, fault)
         IN [signals_enabled |-> s.signals_enabled, raised |-> s.raised,
             issued |-> TRUE]

\* The job's unit as the calls on it see it: a unit that exists is loaded.
ManagedUnit(u) ==
    [loaded |-> u.exists, installed |-> u.exists, active_state |-> u.active_state,
     sub_state |-> ""]

\* try: st = self.active_state(unit_name, default="inactive")
\* except SystemdError: st = "failed"
PollActiveState(u, fault) ==
    LET r == active_state(ManagedUnit(u), "open", {}, fault, fault, fault, "inactive")
    IN IF r.raised # "" THEN "failed" ELSE r.value

\* str(sp.get("Type", "")): a property that cannot be read is left out of sp.
SpType(u, type_fault) ==
    IF u.type # "" /\ ~type_fault THEN u.type ELSE ""

\* int(sp.get("ExecMainStatus", 0))
SpExecMainStatus(u, status_fault) ==
    IF u.type # "" /\ ~status_fault THEN u.exec_status ELSE 0

\* Whether the evaluation goes on to get_service_properties.
NeedsServiceProps(job_type, st) == job_type # "stop" /\ st # "active"

\* ok, as the heuristic evaluation sets it.
PollOkUnlessOneshotFailed(job_type, st, sp_type, sp_status) ==
    IF job_type = "stop" THEN st \in {"inactive", "failed"}
    ELSE IF st = "active" THEN TRUE
    ELSE IF sp_type = "oneshot" THEN sp_status = 0
    ELSE TRUE

PollOk(job_type, st, sp_type, sp_status) ==
    IF job_type = "stop" THEN st \in {"inactive", "failed"}
    ELSE IF st = "active" THEN TRUE
    ELSE IF sp_type = "oneshot" THEN sp_status = 0
    ELSE st # "failed"

\* The end of wait_job_poll.
PollReportNeverRaises(ok, raise_on_fail) ==
    IF ~ok THEN Return("failed") ELSE Return("done")

PollReport(ok, raise_on_fail) ==
    IF ~ok
    THEN IF raise_on_fail THEN Raise("JobFailedError", "failed") ELSE Return("failed")
    ELSE Return("done")

\* The deadline branch of the poll loop.
PollTimeout(raise_on_fail) ==
    IF raise_on_fail THEN Raise("JobFailedError", "timeout-wait") ELSE Return("timeout-wait")

\* The end of wait_job: result = result_holder["result"] or "failed", ...
EventReportRawResult(result_holder, raise_on_fail) ==
    LET result == IF result_holder \in {None, ""} THEN "failed" ELSE result_holder
    IN IF result # "done" /\ raise_on_fail THEN Raise("JobFailedError", result)
       ELSE Return(result)

EventReport(result_holder, raise_on_fail) ==
    LET result == IF result_holder \in {None, ""} THEN "failed" ELSE result_holder
    IN IF result = "timeout-wait"
       THEN IF raise_on_fail THEN Raise("JobFailedError", "timeout-wait")
            ELSE Return("timeout-wait")
       ELSE IF result # "done"
       THEN IF raise_on_fail THEN Raise("JobFailedError", result) ELSE Return("failed")
       ELSE Return("done")

(***************************************************************************)
(* Waiting for a job: the state of a wait call.                             *)
(***************************************************************************)
\* A wait call that has not begun.  entry is the method the caller calls:
\* "dispatch" (a *_wait operation) or "wait_job".
IdleWait(entry, timeout_sec, raise_on_fail) ==
    [pc |-> "idle", entry |-> entry, timeout_sec |-> timeout_sec,
     raise_on_fail |-> raise_on_fail,
     strategy |-> "",       \* "poll" or "event": the method that observes the job
     job_type |-> "",       \* wait_job_poll: job_type
     t0 |-> NoneF,          \* wait_job_poll: time.monotonic() when the deadline is set
     deadline |-> NoneF,    \* wait_job_poll: deadline
     st |-> "",             \* wait_job_poll: st
     result |-> None,       \* wait_job: result_holder["result"]
     timer |-> NoneF,       \* wait_job: when the GLib timeout was added (NoneF: no source)
     quit |-> FALSE,        \* wait_job: loop.quit() was called
     faulted |-> FALSE,     \* a bus call of this wait ended in one of BusFaults
     others |-> FALSE,      \* wait_job: a JobRemoved of another job was dispatched to it
     ret |-> "", exc |-> "", exc_result |-> ""]

Active(i) == wait[i].pc \notin {"idle", "done"}

\* subscribed, resubscribed and props_receivers are kept for the properties:
\* whether the last Subscribe()/Unsubscribe() the manager answered was
\* Subscribe(), whether wait_job or on_unit_properties_changed called
\* Subscribe() with _signals_enabled set, and the number of PropertiesChanged
\* receivers on_unit_properties_changed registered.
NewClient(glib_enabled) ==
    [glib_enabled |-> glib_enabled, signals_enabled |-> FALSE, receiver |-> FALSE,
     subscribed |-> FALSE, resubscribed |-> FALSE, props_receivers |-> 0]

\* The client c after a call of `method` ("Subscribe" or "Unsubscribe") that
\* ended with fault, or after none (issued false), with the flag the code
\* left; implied: the call was made by wait_job or
\* on_unit_properties_changed.
AfterManagerCall(c, method, issued, implied, fault, flag) ==
    [c EXCEPT !.signals_enabled = flag,
              !.subscribed = IF issued /\ fault = "" THEN method = "Subscribe" ELSE @,
              !.resubscribed = @ \/ (issued /\ implied /\ c.signals_enabled)]

\* The wait call of client i ends with outcome o; its locals are gone.
Finish(i, o, fault) ==
    [wait EXCEPT ![i].pc = "done", ![i].ret = o.ret, ![i].exc = o.exc,
                 ![i].exc_result = o.exc_result,
                 ![i].faulted = @ \/ fault # "",
                 ![i].job_type = "", ![i].t0 = NoneF, ![i].deadline = NoneF,
                 ![i].st = "", ![i].quit = FALSE]

\* The clock is counted while a wait with a timeout_sec is in progress: no
\* other wait reads it.
Timed(i) == Active(i) /\ wait[i].timeout_sec # NoneF

(***************************************************************************)
(* Waiting for a job: the steps.                                            *)
(***************************************************************************)
\* client.subscribe(), called before the wait, with Subscribe() answered.
Subscribe(i) ==
    /\ wait[i].pc = "idle"
    /\ ~client[i].signals_enabled
    /\ client' = [client EXCEPT ![i] =
            AfterManagerCall(@, "Subscribe", TRUE, FALSE, "",
                             subscribe("open", @.signals_enabled, "").signals_enabled)]
    /\ UNCHANGED <<threadVars, timerVars, signalVars, matchVars, clientVars, now, glib, job, unit, inbox, wait>>

\* The caller enters a *_wait operation (the job is issued already) or
\* wait_job.  A deadline is asked for only where the clock can reach it.
Call(i) ==
    /\ wait[i].pc = "idle"
    /\ wait[i].timeout_sec # NoneF => now + wait[i].timeout_sec <= MaxTime
    /\ wait' = [wait EXCEPT ![i].pc =
                    IF wait[i].entry = "dispatch"
                    THEN wait_job_dispatch(client[i].glib_enabled, glib)
                    ELSE "wait_job"]
    /\ UNCHANGED <<threadVars, timerVars, signalVars, matchVars, clientVars, now, glib, job, unit, client, inbox>>

\* wait_job, "if GLib is None": the defensive fallback.
WaitJobNoGLib(i) ==
    /\ wait[i].pc = "wait_job"
    /\ ~glib
    /\ wait' = [wait EXCEPT ![i].pc = "wait_job_poll"]
    /\ UNCHANGED <<threadVars, timerVars, signalVars, matchVars, clientVars, now, glib, job, unit, client, inbox>>

\* wait_job, "if not self._signals_enabled": subscribe(), and the polling
\* strategy when Subscribe() ends in a fault.
WaitJobSubscribe(i) ==
    /\ wait[i].pc = "wait_job"
    /\ glib
    /\ \E fault \in MaybeFault :
         /\ client[i].signals_enabled => fault = ""
         /\ LET sub == subscribe_if_disabled("open", client[i].signals_enabled, fault)
            IN /\ client' = [client EXCEPT ![i] =
                      AfterManagerCall(@, "Subscribe", sub.issued, TRUE, fault,
                                       sub.signals_enabled)]
               /\ IF sub.raised = ""
                  THEN wait' = [wait EXCEPT ![i].pc = "register"]
                  ELSE wait' = [wait EXCEPT ![i].pc = "wait_job_poll",
                                            ![i].faulted = TRUE]
    /\ UNCHANGED <<threadVars, timerVars, signalVars, matchVars, clientVars, now, glib, job, unit, inbox>>

\* wait_job: result_holder, the JobRemoved receiver and the timeout source.
WaitJobRegister(i) ==
    /\ wait[i].pc = "register"
    /\ client' = [client EXCEPT ![i].receiver = TRUE]
    /\ wait' = [wait EXCEPT ![i].pc = "loop", ![i].strategy = "event",
                            ![i].result = None, ![i].quit = FALSE,
                            ![i].timer = IF wait[i].timeout_sec # NoneF THEN now ELSE NoneF]
    /\ UNCHANGED <<threadVars, timerVars, signalVars, matchVars, clientVars, now, glib, job, unit, inbox>>

\* loop.run() dispatches a JobRemoved signal to _on_job_removed.  After
\* loop.quit() the loop still dispatches what is ready in its iteration.
OnJobRemovedOfAnyJob(w, s) ==
    [w EXCEPT !.result = s.result, !.quit = TRUE,
              !.others = @ \/ s.path # JobPath]

on_job_removed(w, s) ==
    IF s.path # JobPath
    THEN [w EXCEPT !.others = TRUE]
    ELSE [w EXCEPT !.result = s.result, !.quit = TRUE]

OnJobRemoved(i) ==
    /\ wait[i].pc = "loop"
    /\ \E s \in inbox[i] :
         /\ inbox' = [inbox EXCEPT ![i] = @ \ {s}]
         /\ wait' = [wait EXCEPT ![i] = on_job_removed(wait[i], s)]
    /\ UNCHANGED <<threadVars, timerVars, signalVars, matchVars, clientVars, now, glib, job, unit, client>>

\* loop.run() dispatches the timeout source to _on_timeout, which returns
\* False: the source is removed.
OnTimeout(i) ==
    /\ wait[i].pc = "loop"
    /\ wait[i].timer # NoneF
    /\ now >= wait[i].timer + wait[i].timeout_sec
    /\ IF wait[i].result # None
       THEN wait' = [wait EXCEPT ![i].timer = NoneF]
       ELSE wait' = [wait EXCEPT ![i].timer = NoneF, ![i].result = "timeout-wait",
                                 ![i].quit = TRUE]
    /\ UNCHANGED <<threadVars, timerVars, signalVars, matchVars, clientVars, now, glib, job, unit, client, inbox>>

\* loop.run() returns; the receiver is removed and the result reported.
WaitJobReturn(i) ==
    /\ wait[i].pc = "loop"
    /\ wait[i].quit
    /\ client' = [client EXCEPT ![i].receiver = FALSE]
    /\ inbox' = [inbox EXCEPT ![i] = {}]
    /\ wait' = Finish(i, EventReport(wait[i].result, wait[i].raise_on_fail), "")
    /\ UNCHANGED <<threadVars, timerVars, signalVars, matchVars, clientVars, now, glib, job, unit>>

\* wait_job_poll: JobType and Unit are read once, then the deadline is set.
PollProps(i) ==
    /\ wait[i].pc = "wait_job_poll"
    /\ \E fault \in MaybeFault :
         LET name == JobRead(job.exists, fault)
         IN IF name # ""
            THEN wait' = [Finish(i, Raise(map_dbus_error(name), ""), fault)
                             EXCEPT ![i].strategy = "poll"]
            ELSE wait' = [wait EXCEPT ![i].pc = "poll_loop", ![i].strategy = "poll",
                              ![i].job_type = job.type, ![i].t0 = now,
                              ![i].deadline = PollDeadline(now, wait[i].timeout_sec)]
    /\ UNCHANGED <<threadVars, timerVars, signalVars, matchVars, clientVars, now, glib, job, unit, client, inbox>>

\* One turn of "while True": the deadline test, then the read of State.
PollLoop(i) ==
    /\ wait[i].pc = "poll_loop"
    /\ IF DeadlinePassed(wait[i].deadline, now)
       THEN wait' = Finish(i, PollTimeout(wait[i].raise_on_fail), "")
       ELSE \E fault \in MaybeFault :
               LET name == JobRead(job.exists, fault)
               IN IF name = ""
                  THEN wait' = [wait EXCEPT ![i].pc = "poll_sleep"]
                  ELSE IF name \in {UnknownObject, NoSuchJob}
                  THEN wait' = [wait EXCEPT ![i].pc = "poll_eval"]
                  ELSE wait' = Finish(i, Raise(map_dbus_error(name), ""), fault)
    /\ UNCHANGED <<threadVars, timerVars, signalVars, matchVars, clientVars, now, glib, job, unit, client, inbox>>

\* time.sleep(poll_interval)
PollSleep(i) ==
    /\ wait[i].pc = "poll_sleep"
    /\ now' = IF Timed(i) THEN Min(now + poll_interval, MaxTime) ELSE now
    /\ wait' = [wait EXCEPT ![i].pc = "poll_loop"]
    /\ UNCHANGED <<threadVars, timerVars, signalVars, matchVars, clientVars, glib, job, unit, client, inbox>>

\* The heuristic evaluation: st, and ok where st decides it.
PollEvalState(i) ==
    /\ wait[i].pc = "poll_eval"
    /\ \E fault \in MaybeFault :
         LET st == PollActiveState(unit, fault)
         IN IF NeedsServiceProps(wait[i].job_type, st)
            THEN wait' = [wait EXCEPT ![i].pc = "poll_eval_svc", ![i].st = st,
                              ![i].faulted = @ \/ fault # ""]
            ELSE wait' = Finish(i, PollReport(PollOk(wait[i].job_type, st, "", 0),
                                              wait[i].raise_on_fail), fault)
    /\ UNCHANGED <<threadVars, timerVars, signalVars, matchVars, clientVars, now, glib, job, unit, client, inbox>>

\* The heuristic evaluation: get_service_properties (which raises when the
\* unit's path cannot be resolved and leaves out what it cannot read), and ok.
PollEvalSvc(i) ==
    /\ wait[i].pc = "poll_eval_svc"
    /\ \E path_fault \in MaybeFault, type_fault \in BOOLEAN, status_fault \in BOOLEAN :
         LET name == get_unit_path(ManagedUnit(unit), "open", path_fault, path_fault).name
             any == IF path_fault # "" \/ type_fault \/ status_fault THEN NoReply ELSE ""
         IN IF name # ""
            THEN /\ ~type_fault /\ ~status_fault
                 /\ wait' = Finish(i, Raise(map_dbus_error(name), ""), path_fault)
            ELSE wait' = Finish(i, PollReport(PollOk(wait[i].job_type, wait[i].st,
                                                     SpType(unit, type_fault),
                                                     SpExecMainStatus(unit, status_fault)),
                                              wait[i].raise_on_fail), any)
    /\ UNCHANGED <<threadVars, timerVars, signalVars, matchVars, clientVars, now, glib, job, unit, client, inbox>>

\* The manager finishes the job: its object is gone, the unit is in its
\* final state, and JobRemoved reaches the connections that have a receiver
\* registered for it.
JobFinish ==
    /\ job.exists
    /\ \E r \in JobResults :
         /\ job' = [job EXCEPT !.exists = FALSE]
         /\ unit' \in Units
         /\ inbox' = [i \in Waiters |->
                         IF client[i].receiver
                         THEN inbox[i] \cup {[path |-> JobPath, result |-> r]}
                         ELSE inbox[i]]
    /\ UNCHANGED <<threadVars, timerVars, signalVars, matchVars, clientVars, now, glib, client, wait>>

\* The manager finishes some other job.
OtherJobRemoved ==
    /\ \E i \in Waiters :
         client[i].receiver /\ [path |-> OtherJobPath, result |-> "done"] \notin inbox[i]
    /\ inbox' = [i \in Waiters |->
                    IF client[i].receiver
                    THEN inbox[i] \cup {[path |-> OtherJobPath, result |-> "done"]}
                    ELSE inbox[i]]
    /\ UNCHANGED <<threadVars, timerVars, signalVars, matchVars, clientVars, now, glib, job, unit, client, wait>>

\* Time passes while a wait is in progress.
Tick ==
    /\ now < MaxTime
    /\ \E i \in Waiters : Timed(i)
    /\ now' = now + 1
    /\ UNCHANGED <<threadVars, timerVars, signalVars, matchVars, clientVars, glib, job, unit, client, inbox, wait>>

\* The caller is between two calls on client i: before the wait or after it.
Between(i) == wait[i].pc \in {"idle", "done"}

\* client.subscribe(), whatever the flag and the answer of the manager.
SubscribeCall(i) ==
    /\ Between(i)
    /\ \E fault \in MaybeFault :
         client' = [client EXCEPT ![i] =
            AfterManagerCall(@, "Subscribe", TRUE, FALSE, fault,
                             subscribe("open", @.signals_enabled, fault).signals_enabled)]
    /\ UNCHANGED <<threadVars, timerVars, signalVars, matchVars, clientVars, now, glib, job, unit, inbox, wait>>

\* client.unsubscribe()
Unsubscribe(i) ==
    /\ Between(i)
    /\ \E fault \in MaybeFault :
         client' = [client EXCEPT ![i] =
            AfterManagerCall(@, "Unsubscribe", TRUE, FALSE, fault,
                             unsubscribe("open", @.signals_enabled, fault).signals_enabled)]
    /\ UNCHANGED <<threadVars, timerVars, signalVars, matchVars, clientVars, now, glib, job, unit, inbox, wait>>

\* client.on_unit_properties_changed(unit, callback): subscribe() when the
\* flag is not set, the path of the unit, and the receiver; an error of
\* subscribe() or of the path leaves no receiver.
OnUnitPropertiesChangedBy(i) ==
    /\ Between(i)
    /\ client[i].props_receivers < MaxHandlers
    /\ \E fs \in MaybeFault, f1 \in MaybeFault, f2 \in MaybeFault :
         /\ client[i].signals_enabled => fs = ""
         /\ LET sub == subscribe_if_disabled("open", client[i].signals_enabled, fs)
                p == get_unit_path(ManagedUnit(unit), "open", f1, f2)
                c == AfterManagerCall(client[i], "Subscribe", sub.issued, TRUE, fs,
                                      sub.signals_enabled)
            IN /\ sub.raised # "" => f1 = "" /\ f2 = ""
               /\ client' = [client EXCEPT ![i] =
                      IF sub.raised = "" /\ p.name = ""
                      THEN [c EXCEPT !.props_receivers = @ + 1]
                      ELSE c]
    /\ UNCHANGED <<threadVars, timerVars, signalVars, matchVars, clientVars, now, glib, job, unit, inbox, wait>>

WaitStep(i) ==
    \/ Subscribe(i)
    \/ Call(i)
    \/ WaitJobNoGLib(i)
    \/ WaitJobSubscribe(i)
    \/ WaitJobRegister(i)
    \/ OnJobRemoved(i)
    \/ OnTimeout(i)
    \/ WaitJobReturn(i)
    \/ PollProps(i)
    \/ PollLoop(i)
    \/ PollSleep(i)
    \/ PollEvalState(i)
    \/ PollEvalSvc(i)

(***************************************************************************)
(* The client object and its operations on one unit.                        *)
(***************************************************************************)
Handlers == 1..MaxHandlers

\* The error names a manager method can answer a lifecycle or install call
\* with (None: an exception that carries no name).
FaultNames == {NoSuchUnit, UnknownObject, AccessDenied, JobFailed, NoSuchJob, NoReply, None}

\* The faults of the n bus calls of one operation: every call answered, or
\* one of them ending in a fault.  On a connection that is not open every
\* call fails as it is, whatever the manager would do.
FaultPlans(n, bus) ==
    {[k \in 1..n |-> ""]}
    \cup (IF bus = "open"
          THEN {[k \in 1..n |-> IF k = q THEN f ELSE ""] : q \in 1..n, f \in BusFaults}
          ELSE {})

\* The four error types of the client that _map_dbus_error yields.
SystemdErrors == {"UnitNotFoundError", "AccessDeniedError", "JobFailedError", "DBusIOError"}

\* The units the manager can hold for the name: a unit that is neither loaded
\* nor installed has no state.
ManagedUnits ==
    {u \in [loaded : BOOLEAN, installed : BOOLEAN, active_state : {"active", "inactive", ""},
            sub_state : {"running", "dead", ""}] :
        /\ (u.loaded \/ u.installed) => (u.active_state # "" /\ u.sub_state # "")
        /\ ~(u.loaded \/ u.installed) => (u.active_state = "" /\ u.sub_state = "")
        /\ u.active_state = "active" <=> u.sub_state = "running"
        /\ u.active_state = "active" => u.loaded}

\* The client before __init__.
(***************************************************************************)
(* The systemd_timer module: one run renders the .timer file from its        *)
(* parameters and writes it when the file on disk reads differently.  A      *)
(* string is its sequence of code points, a dict the sequence of its items   *)
(* in insertion order, an option's value the list of the strings it stands   *)
(* for (a scalar: one string).                                               *)
(***************************************************************************)
LF == 10
CR == 13
Underscore == 95

S_Unit == <<85, 110, 105, 116>>
S_Timer == <<84, 105, 109, 101, 114>>
S_OnCalendar == <<79, 110, 67, 97, 108, 101, 110, 100, 97, 114>>
S_on_calendar == <<111, 110, 95, 99, 97, 108, 101, 110, 100, 97, 114>>
S_Persistent == <<80, 101, 114, 115, 105, 115, 116, 101, 110, 116>>
S_persistent == <<112, 101, 114, 115, 105, 115, 116, 101, 110, 116>>
S_Description == <<68, 101, 115, 99, 114, 105, 112, 116, 105, 111, 110>>
S_description == <<100, 101, 115, 99, 114, 105, 112, 116, 105, 111, 110>>
S_raw == <<114, 97, 119>>
S_special == <<115, 112, 101, 99, 105, 97, 108>>
S_daily == <<100, 97, 105, 108, 121>>
S_weekly == <<119, 101, 101, 107, 108, 121>>
S_monthly == <<109, 111, 110, 116, 104, 108, 121>>
S_true == <<116, 114, 117, 101>>
S_nightly == <<110, 105, 103, 104, 116, 108, 121>>
S_a_cr_b == <<97, CR, 98>>
S_every == <<42, 45, 42, 45, 42, 32, 42, 58, 42, 58, 48, 48>>

\* str.lower(), str.capitalize()
UpperChar(c) == IF c >= 97 /\ c <= 122 THEN c - 32 ELSE c

LowerStr(t) == [i \in 1..Len(t) |-> LowerChar(t[i])]

capitalize(t) ==
    [i \in 1..Len(t) |-> IF i = 1 THEN UpperChar(t[i]) ELSE LowerChar(t[i])]

\* str.split(sep): the parts of t between the separators.
RECURSIVE split(_, _)
split(t, sep) ==
    IF ~HasChar(t, sep) THEN <<t>>
    ELSE LET i == CHOOSE k \in 1..Len(t) :
                      t[k] = sep /\ \A j \in 1..(k-1) : t[j] # sep
         IN <<SubSeq(t, 1, i - 1)>> \o split(SubSeq(t, i + 1, Len(t)), sep)

\* sep.join(parts)
RECURSIVE join(_, _)
join(parts, sep) ==
    IF parts = << >> THEN << >>
    ELSE IF Len(parts) = 1 THEN parts[1]
    ELSE parts[1] \o sep \o join(Tail(parts), sep)

\* helper.snake_to_systemd(key)
snake_to_systemd(key) ==
    IF key = << >> THEN key
    ELSE IF ~HasChar(key, Underscore) /\ \E i \in 2..Len(key) : IsUpper(key[i])
    THEN key
    ELSE LET parts == SelectSeq(split(key, Underscore), LAMBDA q : q # << >>)
         IN join([i \in 1..Len(parts) |-> capitalize(parts[i])], << >>)

\* dict: `key in d`, d[key], d[key] = value (a new key goes to the end).
DictHas(d, key) == \E i \in 1..Len(d) : d[i].key = key

DictGet(d, key) ==
    IF DictHas(d, key) THEN d[CHOOSE i \in 1..Len(d) : d[i].key = key].value
    ELSE << >>

DictSet(d, key, value) ==
    IF DictHas(d, key)
    THEN [i \in 1..Len(d) |-> IF d[i].key = key
                              THEN [key |-> key, value |-> value] ELSE d[i]]
    ELSE Append(d, [key |-> key, value |-> value])

Item(key, value) == [key |-> key, value |-> <<value>>]

\* The convenience keys and the valid keys of a section, as far as the runs
\* here use them.
unit_map == {<<S_description, S_Description>>}
VALID_UNIT_KEYS == {S_Description}
option_map == {<<S_persistent, S_Persistent>>}
VALID_TIMER_KEYS == {S_OnCalendar, S_Persistent}

\* The translation of a key in validate_unit_options / validate_timer_options.
sd_key(key, map, valid) ==
    IF \E m \in map : m[1] = key THEN (CHOOSE m \in map : m[1] = key)[2]
    ELSE IF key \in valid THEN key
    ELSE IF HasChar(key, Underscore) /\ LowerStr(key) = key THEN snake_to_systemd(key)
    ELSE key

\* The section a validate_*_options call returns (not strict; no value here
\* is None, a timespan or a bool).
RECURSIVE validate_options(_, _, _, _)
validate_options(options, map, valid, section) ==
    IF options = << >> THEN section
    ELSE validate_options(Tail(options), map, valid,
                          DictSet(section, sd_key(Head(options).key, map, valid),
                                  Head(options).value))

validate_unit_options(options) ==
    validate_options(options, unit_map, VALID_UNIT_KEYS, << >>)

validate_timer_options(options) ==
    validate_options(options, option_map, VALID_TIMER_KEYS, << >>)

\* build_calendar_spec(schedule): raw, else special, else the components
\* (none is given in the runs here: every one has its default).  << >> is
\* None.
build_calendar_spec(schedule) ==
    IF schedule = << >> THEN << >>
    ELSE IF DictGet(schedule, S_raw) \notin {<< >>, << << >> >>}
    THEN DictGet(schedule, S_raw)[1]
    ELSE IF DictGet(schedule, S_special) \notin {<< >>, << << >> >>}
    THEN DictGet(schedule, S_special)[1]
    ELSE S_every

\* on_calendar_values of run(): the expressions of schedule, then of each
\* entry of schedules.
RECURSIVE specs_of(_)
specs_of(schedules) ==
    IF schedules = << >> THEN << >>
    ELSE (IF Head(schedules) # << >> /\ build_calendar_spec(Head(schedules)) # << >>
          THEN <<build_calendar_spec(Head(schedules))>> ELSE << >>)
         \o specs_of(Tail(schedules))

on_calendar_values(params) ==
    specs_of(<<params.schedule>>) \o specs_of(params.schedules)

\* The [Timer] section run() renders: the validated options, with OnCalendar
\* set from the schedules when there are any and the timer parameter has no
\* key "OnCalendar".
timer_section(params) ==
    LET timer_options == validate_timer_options(params.timer)
        values == on_calendar_values(params)
    IN IF values # << >> /\ ~DictHas(params.timer, S_OnCalendar)
       THEN DictSet(timer_options, S_OnCalendar, values)
       ELSE timer_options

\* render_section(name, options)
RECURSIVE option_lines(_)
option_lines(options) ==
    IF options = << >> THEN << >>
    ELSE [i \in 1..Len(Head(options).value) |->
             Head(options).key \o <<32, 61, 32>> \o Head(options).value[i]]
         \o option_lines(Tail(options))

render_section(name, options) ==
    join(<< <<91>> \o name \o <<93>> >> \o option_lines(options), <<LF>>)

\* content of run(): the [Unit] and [Timer] sections (install is empty in
\* the runs here: no [Install] section).
content(params) ==
    join(<<render_section(S_Unit, validate_unit_options(params.unit)),
           render_section(S_Timer, timer_section(params))>>, <<LF, LF>>) \o <<LF>>

\* open(path, "r").read(): universal newlines, "\r\n" and "\r" read as "\n".
RECURSIVE TextRead(_)
TextRead(bytes) ==
    IF bytes = << >> THEN << >>
    ELSE IF Head(bytes) = CR
    THEN <<LF>> \o TextRead(IF Len(bytes) > 1 /\ bytes[2] = LF
                            THEN SubSeq(bytes, 3, Len(bytes)) ELSE Tail(bytes))
    ELSE <<Head(bytes)>> \o TextRead(Tail(bytes))

\* open(path, "w").write(): "\n" is written as os.linesep, "\r" as it is.
linesep == <<LF>>

RECURSIVE TextWrite(_)
TextWrite(text) ==
    IF text = << >> THEN << >>
    ELSE (IF Head(text) = LF THEN linesep ELSE <<Head(text)>>) \o TextWrite(Tail(text))

\* No file at timer_path.
Absent == [exists |-> FALSE, text |-> << >>]

\* write_file(path, content, ...): the file after it, whether it wrote, and
\* the changed it returns.
write_file(file, text, check_mode) ==
    LET before == IF file.exists THEN TextRead(file.text) ELSE << >>
    IN [changed |-> before # text,
        wrote |-> before # text /\ ~check_mode,
        disk |-> IF before # text /\ ~check_mode
                 THEN [exists |-> TRUE, text |-> TextWrite(text)] ELSE file]

\* remove_file(path): the file after it, the value it returns, and whether
\* os.remove raised OSError (os_error: the removal is refused), on which
\* fail_json ends the module and nothing is returned.
RemoveFileReportingRemoval(file, check_mode, os_error) ==
    IF file.exists /\ ~check_mode /\ os_error
    THEN [changed |-> FALSE, wrote |-> FALSE, disk |-> file, failed |-> TRUE]
    ELSE [changed |-> file.exists /\ ~check_mode,
          wrote |-> FALSE,
          disk |-> IF file.exists /\ ~check_mode THEN Absent ELSE file,
          failed |-> FALSE]

remove_file(file, check_mode, os_error) ==
    IF file.exists /\ ~check_mode /\ os_error
    THEN [changed |-> FALSE, wrote |-> FALSE, disk |-> file, failed |-> TRUE]
    ELSE [changed |-> file.exists,
          wrote |-> FALSE,
          disk |-> IF file.exists /\ ~check_mode THEN Absent ELSE file,
          failed |-> FALSE]

\* The parameters of the runs: unit, timer, schedule and schedules.
UnitOptions ==
    {<<Item(S_Description, S_nightly)>>, <<Item(S_description, S_a_cr_b)>>}

TimerOptions ==
    {<< >>,
     <<Item(S_OnCalendar, S_daily)>>,
     <<Item(S_on_calendar, S_daily)>>,
     <<Item(S_persistent, S_true), Item(S_OnCalendar, S_daily)>>}

ScheduleDicts == {<< >>, <<Item(S_special, S_weekly)>>}

ScheduleLists == {<< >>, << <<Item(S_raw, S_monthly)>> >>}

TimerParams ==
    [unit : UnitOptions, timer : TimerOptions, schedule : ScheduleDicts,
     schedules : ScheduleLists]

NoParams == [unit |-> << >>, timer |-> << >>, schedule |-> << >>, schedules |-> << >>]

\* No run of the module yet.
NoRun ==
    [called |-> FALSE, state |-> "", params |-> NoParams, check_mode |-> FALSE,
     changed |-> FALSE, wrote |-> FALSE, again |-> FALSE, section |-> << >>,
     existed |-> FALSE, failed |-> FALSE]

\* Whether a run repeats the one before it: same state, parameters and mode.
Again(state, params, check_mode) ==
    /\ run.called
    /\ run.state = state
    /\ run.params = params
    /\ run.check_mode = check_mode

\* run() with state=present.
RunPresent ==
    /\ \E params \in TimerParams, check_mode \in BOOLEAN :
         LET w == write_file(disk, content(params), check_mode)
         IN /\ disk' = w.disk
            /\ run' = [called |-> TRUE, state |-> "present", params |-> params,
                       check_mode |-> check_mode, changed |-> w.changed,
                       wrote |-> w.wrote,
                       again |-> Again("present", params, check_mode),
                       section |-> timer_section(params),
                       existed |-> disk.exists, failed |-> FALSE]
    /\ UNCHANGED <<threadVars, signalVars, matchVars, waitVars, clientVars>>

\* run() with state=absent.  existed and failed are kept for the properties:
\* whether the file was there when the run began, and whether the run ended
\* in fail_json.
RunAbsent ==
    /\ \E check_mode \in BOOLEAN, os_error \in BOOLEAN :
         LET w == remove_file(disk, check_mode, os_error)
         IN /\ disk' = w.disk
            /\ run' = [called |-> TRUE, state |-> "absent", params |-> NoParams,
                       check_mode |-> check_mode, changed |-> w.changed,
                       wrote |-> w.wrote,
                       again |-> Again("absent", NoParams, check_mode),
                       section |-> << >>,
                       existed |-> disk.exists, failed |-> w.failed]
    /\ UNCHANGED <<threadVars, signalVars, matchVars, waitVars, clientVars>>

\* The timer variables where no run of the module is modelled.
NoTimer == disk = Absent /\ run = NoRun

\* The match rule and the filter of a handler that is not registered.
NoRule == [path |-> "", wanted |-> {}]

NoConn ==
    [bus |-> "none", glib_enabled |-> FALSE, signals_enabled |-> FALSE,
     signal_handlers |-> {}, receivers |-> {}, cache |-> {},
     rule |-> [h \in Handlers |-> NoRule]]

\* No operation called yet.
IdleOp ==
    [name |-> "", arg |-> "", how |-> "", ret |-> "", exc |-> "", keys |-> {},
     calls |-> 0, faults |-> {}, bus |-> "none", iface |-> 0, hit |-> FALSE]

\* The record of an operation that ended.
OpReturned(name, arg, ret, calls, faults) ==
    [name |-> name, arg |-> arg, how |-> "returned", ret |-> ret, exc |-> "",
     keys |-> {}, calls |-> calls, faults |-> faults, bus |-> conn.bus,
     iface |-> 0, hit |-> FALSE]

OpRaised(name, arg, exc, calls, faults) ==
    [name |-> name, arg |-> arg, how |-> "raised", ret |-> "", exc |-> exc,
     keys |-> {}, calls |-> calls, faults |-> faults, bus |-> conn.bus,
     iface |-> 0, hit |-> FALSE]

\* The record of a property read, with the proxy _props_iface_for_unit gave it
\* (0: none) and whether the proxy came out of the cache.
WithProxy(o, cache, pi) ==
    [o EXCEPT !.iface = pi.iface,
              !.hit = pi.name = "" /\ pi.cache = cache]

\* The bus-level faults that occur in _get_unit_path and the Get after it:
\* those of the calls that are made, on a closed connection the disconnect.
PathFaults(u, bus, f1, f2) ==
    IF bus # "open" THEN {Disconnected}
    ELSE ({f1} \cup (IF BusCall(bus, f1, IF u.loaded THEN "" ELSE NoSuchUnit) # ""
                     THEN {f2} ELSE {})) \ {""}

ReadFaults(u, bus, f1, f2, f3) ==
    PathFaults(u, bus, f1, f2)
    \cup (IF get_unit_path(u, bus, f1, f2).name = "" THEN {f3} \ {""} ELSE {})

\* __init__(user_manager, use_glib): without DBusGMainLoop a client asked for
\* with use_glib raises before the bus is opened; opening the bus can fail
\* with the DBusException of dbus.SystemBus() / dbus.SessionBus().
Open ==
    /\ conn.bus = "none"
    /\ \E use_glib \in BOOLEAN, fault \in MaybeFault :
         LET arg == IF use_glib THEN "use_glib" ELSE ""
         IN IF use_glib /\ ~glib
            THEN /\ fault = ""
                 /\ op' = OpRaised("init", arg, "RuntimeError", 0, {})
                 /\ UNCHANGED conn
            ELSE IF fault # ""
            THEN /\ op' = OpRaised("init", arg, "DBusException", 0, {fault})
                 /\ UNCHANGED conn
            ELSE /\ op' = OpReturned("init", arg, None, 0, {})
                 /\ conn' = [NoConn EXCEPT !.bus = "open", !.glib_enabled = use_glib]
    /\ UNCHANGED <<threadVars, timerVars, signalVars, matchVars, waitVars, mgr_unit>>

\* close(): the bus is closed (an exception of closing it again is passed
\* over), every tracked handler is removed from the receivers, the list of
\* handlers and the cache are cleared.
CloseWithoutRemoving(c) ==
    [c EXCEPT !.bus = "closed",
              !.signal_handlers = {},
              !.cache = {}]

\* The rules of the receivers that stay registered.
RulesLeft(c, hs) == [h \in Handlers |-> IF h \in hs THEN c.rule[h] ELSE NoRule]

close(c) ==
    [c EXCEPT !.bus = "closed",
              !.receivers = @ \ c.signal_handlers,
              !.rule = RulesLeft(c, c.receivers \ c.signal_handlers),
              !.signal_handlers = {},
              !.cache = {}]

\* What a close() finds to release (kept with the record of the call).
CloseFinds(c) ==
    (IF c.receivers # {} THEN {"receivers"} ELSE {})
    \cup (IF c.signal_handlers # {} THEN {"handlers"} ELSE {})
    \cup (IF c.cache # {} THEN {"cache"} ELSE {})

Close ==
    /\ conn.bus # "none"
    /\ conn' = close(conn)
    /\ op' = [OpReturned("close", "", None, 0, {}) EXCEPT !.keys = CloseFinds(conn)]
    /\ UNCHANGED <<threadVars, timerVars, signalVars, matchVars, waitVars, mgr_unit>>

\* exists(unit, installed_ok=...)
exists(u, bus, installed_ok, f1, f2) ==
    LET e1 == BusCall(bus, f1, IF u.loaded THEN "" ELSE NoSuchUnit)
        e2 == BusCall(bus, f2, IF u.installed THEN "" ELSE FileNotFound)
    IN IF e1 = "" THEN [value |-> "True", calls |-> 1]
       ELSE IF ~installed_ok THEN [value |-> "False", calls |-> 1]
       ELSE IF e2 = "" THEN [value |-> "True", calls |-> 2]
       ELSE [value |-> "False", calls |-> 2]

Exists ==
    /\ conn.bus # "none"
    /\ \E installed_ok \in BOOLEAN, fs \in FaultPlans(2, conn.bus) :
         LET f1 == fs[1]
             f2 == fs[2]
             r == exists(mgr_unit, conn.bus, installed_ok, f1, f2)
             faults == IF conn.bus # "open" THEN {Disconnected}
                       ELSE ({f1} \cup (IF r.calls = 2 THEN {f2} ELSE {})) \ {""}
         IN op' = OpReturned("exists", IF installed_ok THEN "installed_ok" ELSE "",
                            r.value, r.calls, faults)
    /\ UNCHANGED <<threadVars, timerVars, signalVars, matchVars, waitVars, mgr_unit, conn>>

\* ensure_loaded(unit): GetUnit(), then LoadUnit(), as _get_unit_path.
EnsureLoaded ==
    /\ conn.bus # "none"
    /\ \E fs \in FaultPlans(2, conn.bus) :
         LET p == get_unit_path(mgr_unit, conn.bus, fs[1], fs[2])
             faults == IF conn.bus # "open" THEN {Disconnected}
                       ELSE ({fs[1]} \cup (IF p.calls = 2 THEN {fs[2]} ELSE {})) \ {""}
         IN op' = IF p.name = ""
                  THEN OpReturned("ensure_loaded", "", p.path, p.calls, faults)
                  ELSE OpRaised("ensure_loaded", "", map_dbus_error(p.name), p.calls,
                                faults)
    /\ UNCHANGED <<threadVars, timerVars, signalVars, matchVars, waitVars, mgr_unit, conn>>

\* The defaults of active_state / sub_state.
Defaults == {None, "inactive"}

\* active_state(unit, default=...) and sub_state(unit, default=...)
UnitState ==
    /\ conn.bus # "none"
    /\ \E name \in {"active_state", "sub_state"}, default \in Defaults,
          fs \in FaultPlans(3, conn.bus) :
         LET f1 == fs[1]
             f2 == fs[2]
             f3 == fs[3]
             r == IF name = "active_state"
                  THEN active_state(mgr_unit, conn.bus, conn.cache, f1, f2, f3, default)
                  ELSE sub_state(mgr_unit, conn.bus, conn.cache, f1, f2, f3, default)
             faults == ReadFaults(mgr_unit, conn.bus, f1, f2, f3)
             pi == props_iface_for_unit(mgr_unit, conn.bus, conn.cache, f1, f2)
         IN /\ op' = WithProxy(IF r.raised # ""
                               THEN OpRaised(name, default, r.raised, r.calls, faults)
                               ELSE OpReturned(name, default, r.value, r.calls, faults),
                               conn.cache, pi)
            /\ conn' = [conn EXCEPT !.cache = r.cache]
    /\ UNCHANGED <<threadVars, timerVars, signalVars, matchVars, waitVars, mgr_unit>>

\* get_unit_properties(unit): the default keys, read one after the other
\* through the cached proxy; the first Get that fails ends the call.
GetUnitProperties ==
    /\ conn.bus # "none"
    /\ \E fs \in FaultPlans(3, conn.bus) :
         LET f1 == fs[1]
             f2 == fs[2]
             f3 == fs[3]
             pi == props_iface_for_unit(mgr_unit, conn.bus, conn.cache, f1, f2)
             e3 == BusCall(conn.bus, f3, "")
             faults == ReadFaults(mgr_unit, conn.bus, f1, f2, f3)
         IN /\ op' = WithProxy(
                        IF pi.name # ""
                        THEN OpRaised("get_unit_properties", "", map_dbus_error(pi.name),
                                     pi.calls, faults)
                        ELSE IF e3 # ""
                        THEN OpRaised("get_unit_properties", "", map_dbus_error(e3),
                                     pi.calls + 1, faults)
                        ELSE [OpReturned("get_unit_properties", "", "dict",
                                         pi.calls + 1, faults)
                                 EXCEPT !.keys = {"ActiveState", "SubState"}],
                        conn.cache, pi)
            /\ conn' = [conn EXCEPT !.cache = pi.cache]
    /\ UNCHANGED <<threadVars, timerVars, signalVars, matchVars, waitVars, mgr_unit>>

\* get_service_properties(unit, keys=("Type", "ExecMainStatus")): the path is
\* resolved (and its error raised), then every key is read and a key whose
\* Get fails is left out of the result.
get_service_properties(u, bus, f1, f2, type_fault, status_fault) ==
    LET p == get_unit_path(u, bus, f1, f2)
    IN IF p.name # ""
       THEN [raised |-> map_dbus_error(p.name), keys |-> {}, calls |-> p.calls]
       ELSE [raised |-> "",
             keys |-> (IF BusCall(bus, type_fault, "") = "" THEN {"Type"} ELSE {})
                      \cup (IF BusCall(bus, status_fault, "") = ""
                            THEN {"ExecMainStatus"} ELSE {}),
             calls |-> p.calls + 2]

GetServiceProperties ==
    /\ conn.bus # "none"
    /\ \E fs \in FaultPlans(4, conn.bus) :
         LET f1 == fs[1]
             f2 == fs[2]
             tf == fs[3]
             sf == fs[4]
             r == get_service_properties(mgr_unit, conn.bus, f1, f2, tf, sf)
             faults == PathFaults(mgr_unit, conn.bus, f1, f2)
                       \cup (IF r.raised = "" THEN {tf, sf} \ {""} ELSE {})
         IN op' = IF r.raised # ""
                  THEN OpRaised("get_service_properties", "", r.raised, r.calls, faults)
                  ELSE [OpReturned("get_service_properties", "", "dict", r.calls, faults)
                           EXCEPT !.keys = r.keys]
    /\ UNCHANGED <<threadVars, timerVars, signalVars, matchVars, waitVars, mgr_unit, conn>>

\* One call of a method of the manager: its reply is returned, its error is
\* mapped and raised.
ManagerCallRetrying(bus, fault, reply) ==
    LET e == BusCall(bus, fault, "")
    IN IF e = "" THEN [raised |-> "", value |-> reply, calls |-> 1]
       ELSE IF BusCall(bus, "", "") = ""
       THEN [raised |-> "", value |-> reply, calls |-> 2]
       ELSE [raised |-> map_dbus_error(e), value |-> "", calls |-> 2]

manager_call(bus, fault, reply) ==
    LET e == BusCall(bus, fault, "")
    IN IF e = "" THEN [raised |-> "", value |-> reply, calls |-> 1]
       ELSE [raised |-> map_dbus_error(e), value |-> "", calls |-> 1]

\* get_unit_file_state(file), list_units(), list_unit_files()
ListingOps == {"get_unit_file_state", "list_units", "list_unit_files"}

Listing ==
    /\ conn.bus # "none"
    /\ \E name \in ListingOps, plan \in FaultPlans(1, conn.bus) :
         LET fault == plan[1]
             answer == IF name = "get_unit_file_state" /\ ~mgr_unit.installed
                       THEN FileNotFound ELSE ""
             e == BusCall(conn.bus, fault, answer)
             faults == IF conn.bus # "open" THEN {Disconnected} ELSE {fault} \ {""}
         IN op' = IF e # ""
                  THEN OpRaised(name, "", map_dbus_error(e), 1, faults)
                  ELSE OpReturned(name, "", IF name = "get_unit_file_state"
                                           THEN "enabled" ELSE "list", 1, faults)
    /\ UNCHANGED <<threadVars, timerVars, signalVars, matchVars, waitVars, mgr_unit, conn>>

\* The operations that issue a job, and the type of the job.
JobOps == {"start", "stop", "restart", "reload", "reload_or_restart"}

\* reset_failed, daemon_reload and the install operations.
PlainOps == {"reset_failed", "daemon_reload"}
InstallOps == {"enable", "disable", "mask", "unmask"}

LifecycleOps == JobOps \cup PlainOps \cup InstallOps

\* What the operation returns when the manager answers: str(job path), None,
\* or the install changes (with the carries flag for enable).
ReplyOf(name) ==
    IF name \in JobOps THEN JobPath
    ELSE IF name \in PlainOps THEN None
    ELSE IF name = "enable" THEN "carries, changes"
    ELSE "changes"

\* start .. reset_failed, enable .. unmask, daemon_reload: one manager call,
\* whose reply is returned as it comes; nothing of the job is read.
Lifecycle ==
    /\ conn.bus # "none"
    /\ \E name \in LifecycleOps, fault \in {""} \cup FaultNames :
         /\ conn.bus # "open" => fault = ""
         /\ LET r == manager_call(conn.bus, fault, ReplyOf(name))
                faults == IF conn.bus # "open" THEN {Disconnected} ELSE {fault} \ {""}
            IN op' = IF r.raised # ""
                     THEN OpRaised(name, "", r.raised, r.calls, faults)
                     ELSE OpReturned(name, "", r.value, r.calls, faults)
    /\ UNCHANGED <<threadVars, timerVars, signalVars, matchVars, waitVars, mgr_unit, conn>>

\* on_unit_properties_changed(unit, callback): subscribe() unless subscribed,
\* the unit's path, then the receiver is added and tracked.
IFACE_UNIT == "org.freedesktop.systemd1.Unit"
IFACE_SERVICE == "org.freedesktop.systemd1.Service"

\* The names of the properties a PropertiesChanged signal may carry, and the
\* values of the argument `only` (empty: None or an empty list).
PropNames == {"ActiveState", "SubState"}
Onlys == {{}, {"ActiveState"}}

\* _handler(interface, changed, invalidated): the payload it builds and
\* whether it calls the callback.  A dict is its set of keys: the values go
\* through _py() one by one and do not decide what is passed.
HandlerOfAnyInterface(wanted, interface, changed) ==
    LET payload == {k \in changed : wanted = {} \/ k \in wanted}
    IN [called |-> payload # {}, payload |-> payload]

handler(wanted, interface, changed) ==
    IF interface # IFACE_UNIT THEN [called |-> FALSE, payload |-> {}]
    ELSE LET payload == {k \in changed : wanted = {} \/ k \in wanted}
         IN [called |-> payload # {}, payload |-> payload]

OnUnitPropertiesChanged ==
    /\ conn.bus # "none"
    /\ \E h \in Handlers, only \in Onlys, plan \in FaultPlans(3, conn.bus) :
         /\ h \notin conn.signal_handlers
         /\ \A k \in Handlers : k < h => k \in conn.signal_handlers
         /\ conn.signals_enabled => plan[1] = ""
         /\ LET fs == plan[1]
                f1 == plan[2]
                f2 == plan[3]
                es == IF conn.signals_enabled THEN "" ELSE BusCall(conn.bus, fs, "")
                p == get_unit_path(mgr_unit, conn.bus, f1, f2)
                sc == IF conn.signals_enabled THEN 0 ELSE 1
                sfaults == IF conn.signals_enabled THEN {}
                           ELSE IF conn.bus # "open" THEN {Disconnected} ELSE {fs} \ {""}
            IN IF es # ""
               THEN /\ op' = OpRaised("on_unit_properties_changed", "",
                                     map_dbus_error(es), 1, sfaults)
                    /\ UNCHANGED conn
               ELSE IF p.name # ""
               THEN /\ op' = OpRaised("on_unit_properties_changed", "",
                                     map_dbus_error(p.name), sc + p.calls,
                                     sfaults \cup PathFaults(mgr_unit, conn.bus, f1, f2))
                    /\ conn' = [conn EXCEPT !.signals_enabled = TRUE]
               ELSE /\ op' = OpReturned("on_unit_properties_changed", "", "_off",
                                       sc + p.calls,
                                       sfaults \cup PathFaults(mgr_unit, conn.bus, f1, f2))
                    /\ conn' = [conn EXCEPT !.signals_enabled = TRUE,
                                            !.receivers = @ \cup {h},
                                            !.rule[h] = [path |-> p.path,
                                                         wanted |-> only],
                                            !.signal_handlers = @ \cup {h}]
    /\ UNCHANGED <<threadVars, timerVars, signalVars, matchVars, waitVars, mgr_unit>>

\* The callable on_unit_properties_changed returned: the receiver is removed,
\* the handler stays in _signal_handlers.
Off ==
    /\ \E h \in conn.receivers :
         conn' = [conn EXCEPT !.receivers = @ \ {h},
                              !.rule = RulesLeft(conn, conn.receivers \ {h})]
    /\ UNCHANGED <<threadVars, timerVars, signalVars, matchVars, waitVars, mgr_unit, op>>

\* Another unit's object path.
OtherUnitPath == "/org/freedesktop/systemd1/unit/b_2eservice"

\* No signal seen yet.
NoCb == [path |-> "", interface |-> "", changed |-> {}, calls |-> {}]

\* The receivers the bus hands a PropertiesChanged signal of `path` to: those
\* registered for that path on a connection that is open.
Receiving(c, path) ==
    IF c.bus # "open" THEN {}
    ELSE {h \in c.receivers : c.rule[h].path = path}

\* The manager emits PropertiesChanged for an interface of an object; the
\* main loop dispatches it to the receivers registered for it.
PropertiesChanged ==
    /\ \E path \in {UnitPath, OtherUnitPath},
          interface \in {IFACE_UNIT, IFACE_SERVICE},
          changed \in SUBSET PropNames :
         cb' = [path |-> path, interface |-> interface, changed |-> changed,
                calls |-> {[h |-> h,
                            payload |-> handler(conn.rule[h].wanted, interface,
                                                changed).payload] :
                           h \in {k \in Receiving(conn, path) :
                                    handler(conn.rule[k].wanted, interface,
                                            changed).called}}]
    /\ UNCHANGED <<threadVars, timerVars, matchVars, waitVars, clientVars>>

(***************************************************************************)
(* Polling waits of several threads on one client.  Each thread calls       *)
(* wait_job_poll with its own job path; the threads share the connection    *)
(* and _unit_props_cache.  A step is one access to what the threads share   *)
(* (a bus call, a test, a read or a store of the cache): the interpreter    *)
(* may switch threads between any two of them.                              *)
(***************************************************************************)
Threads == {1, 2}

\* The units the jobs work on, by name.
UnitA == "a.service"
UnitB == "b.service"
ThreadUnits == {UnitA, UnitB}

PathOfUnit(name) == IF name = UnitA THEN UnitPath ELSE OtherUnitPath
UnitOfPath(path) == IF path = UnitPath THEN UnitA ELSE UnitB

\* A unit while its job runs, and what a finished job can leave of it.
StartingUnit == [exists |-> TRUE, active_state |-> "activating", type |-> "simple",
                 exec_status |-> 0]

FinalUnits ==
    {NoUnit,
     [exists |-> TRUE, active_state |-> "active", type |-> "simple", exec_status |-> 0],
     [exists |-> TRUE, active_state |-> "inactive", type |-> "oneshot", exec_status |-> 0],
     [exists |-> TRUE, active_state |-> "failed", type |-> "oneshot", exec_status |-> 1]}

\* self._unit_props_cache[path] = props: the entry of the path is replaced.
CacheStoreBesideOld(cache, path, iface) == cache \cup {[path |-> path, iface |-> iface]}

cache_store(cache, path, iface) ==
    (cache \ Cached(cache, path)) \cup {[path |-> path, iface |-> iface]}

\* A thread about to call wait_job_poll(job_path, timeout_sec=None,
\* raise_on_fail).  jobs_read and units_read are kept for the properties: the
\* jobs and units whose objects the calls of the thread were answered from.
NewThread(job_path, raise_on_fail) ==
    [pc |-> "wait_job_poll", job_path |-> job_path, raise_on_fail |-> raise_on_fail,
     job_type |-> "",       \* wait_job_poll: job_type
     unit_name |-> "",      \* wait_job_poll: unit_name
     path |-> "",           \* _props_iface_for_unit: path
     props |-> 0,           \* _props_iface_for_unit: props, by its number in proxies
     st |-> "",             \* wait_job_poll: st
     sp_type |-> "",        \* wait_job_poll: sp["Type"]
     sp_status |-> 0,       \* wait_job_poll: sp["ExecMainStatus"]
     jobs_read |-> {}, units_read |-> {},
     ret |-> "", exc |-> "", exc_result |-> ""]

\* The call of the thread ends with outcome o.
ThreadFinish(th, o) ==
    [th EXCEPT !.pc = "done", !.ret = o.ret, !.exc = o.exc, !.exc_result = o.exc_result]

\* st is set: ok where st decides it, else on to get_service_properties.
ThreadEval(th, st) ==
    IF NeedsServiceProps(th.job_type, st)
    THEN [th EXCEPT !.pc = "svc", !.st = st]
    ELSE ThreadFinish([th EXCEPT !.st = st],
                      PollReport(PollOk(th.job_type, st, "", 0), th.raise_on_fail))

\* The reads of JobType and Unit before the loop.
ThreadPollProps(t) ==
    /\ thread[t].pc = "wait_job_poll"
    /\ LET j == tjobs[thread[t].job_path]
           name == JobRead(j.exists, "")
           th == [thread[t] EXCEPT !.jobs_read = @ \cup {thread[t].job_path}]
       IN thread' = [thread EXCEPT ![t] =
              IF name # "" THEN ThreadFinish(th, Raise(map_dbus_error(name), ""))
              ELSE [th EXCEPT !.pc = "poll_loop", !.job_type = j.type,
                              !.unit_name = j.unit]]
    /\ UNCHANGED <<matchVars, waitVars, clientVars, signalVars, timerVars, tjobs, tunits, proxies>>

\* One turn of "while True" with no deadline: the read of State.
ThreadPollLoop(t) ==
    /\ thread[t].pc = "poll_loop"
    /\ LET name == JobRead(tjobs[thread[t].job_path].exists, "")
       IN thread' = [thread EXCEPT ![t].pc =
              IF name = "" THEN "poll_sleep" ELSE "resolve"]
    /\ UNCHANGED <<matchVars, waitVars, clientVars, signalVars, timerVars, tjobs, tunits, proxies>>

\* time.sleep(poll_interval)
ThreadPollSleep(t) ==
    /\ thread[t].pc = "poll_sleep"
    /\ thread' = [thread EXCEPT ![t].pc = "poll_loop"]
    /\ UNCHANGED <<matchVars, waitVars, clientVars, signalVars, timerVars, tjobs, tunits, proxies>>

\* active_state(unit_name, default="inactive"), _props_iface_for_unit:
\* path = self._get_unit_path(unit); a unit the manager does not know gives
\* the default.
ThreadResolve(t) ==
    /\ thread[t].pc = "resolve"
    /\ LET name == thread[t].unit_name
           p == get_unit_path(ManagedUnit(tunits[name]), conn.bus, "", "")
           th == [thread[t] EXCEPT !.units_read = @ \cup {name}]
       IN thread' = [thread EXCEPT ![t] =
              IF p.name = "" THEN [th EXCEPT !.pc = "lookup", !.path = PathOfUnit(name)]
              ELSE IF map_dbus_error(p.name) = "UnitNotFoundError"
              THEN ThreadEval(th, "inactive")
              ELSE ThreadEval(th, "failed")]
    /\ UNCHANGED <<matchVars, waitVars, clientVars, signalVars, timerVars, tjobs, tunits, proxies>>

\* if path in self._unit_props_cache
ThreadLookup(t) ==
    /\ thread[t].pc = "lookup"
    /\ thread' = [thread EXCEPT ![t].pc =
            IF Cached(conn.cache, thread[t].path) # {} THEN "fetch" ELSE "make"]
    /\ UNCHANGED <<matchVars, waitVars, clientVars, signalVars, timerVars, tjobs, tunits, proxies>>

\* return self._unit_props_cache[path]
ThreadFetch(t) ==
    /\ thread[t].pc = "fetch"
    /\ thread' = [thread EXCEPT ![t].pc = "get",
            ![t].props = (CHOOSE e \in Cached(conn.cache, thread[t].path) : TRUE).iface]
    /\ UNCHANGED <<matchVars, waitVars, clientVars, signalVars, timerVars, tjobs, tunits, proxies>>

\* obj = self._bus.get_object(SERVICE, path); props = Interface(obj, IFACE_PROPS)
ThreadMake(t) ==
    /\ thread[t].pc = "make"
    /\ proxies' = Append(proxies, thread[t].path)
    /\ thread' = [thread EXCEPT ![t].pc = "store", ![t].props = Len(proxies) + 1]
    /\ UNCHANGED <<matchVars, waitVars, clientVars, signalVars, timerVars, tjobs, tunits>>

\* self._unit_props_cache[path] = props
ThreadStore(t) ==
    /\ thread[t].pc = "store"
    /\ conn' = [conn EXCEPT !.cache = cache_store(@, thread[t].path, thread[t].props)]
    /\ thread' = [thread EXCEPT ![t].pc = "get"]
    /\ UNCHANGED <<matchVars, waitVars, signalVars, timerVars, mgr_unit, op, tjobs, tunits, proxies>>

\* props.Get(IFACE_UNIT, "ActiveState") on the proxy: the object at the path
\* the proxy is bound to answers; the evaluation follows.
ThreadGet(t) ==
    /\ thread[t].pc = "get"
    /\ LET name == UnitOfPath(proxies[thread[t].props])
           u == tunits[name]
           th == [thread[t] EXCEPT !.units_read = @ \cup {name}]
       IN thread' = [thread EXCEPT ![t] =
              IF u.exists THEN ThreadEval(th, u.active_state)
              ELSE IF map_dbus_error(UnknownObject) = "UnitNotFoundError"
              THEN ThreadEval(th, "inactive")
              ELSE ThreadEval(th, "failed")]
    /\ UNCHANGED <<matchVars, waitVars, clientVars, signalVars, timerVars, tjobs, tunits, proxies>>

\* get_service_properties(unit_name, keys=("Type", "ExecMainStatus")), which
\* makes a proxy of its own, and ok.
ThreadSvc(t) ==
    /\ thread[t].pc = "svc"
    /\ LET name == thread[t].unit_name
           u == tunits[name]
           p == get_unit_path(ManagedUnit(u), conn.bus, "", "")
           th == [thread[t] EXCEPT !.units_read = @ \cup {name}]
       IN thread' = [thread EXCEPT ![t] =
              IF p.name # "" THEN ThreadFinish(th, Raise(map_dbus_error(p.name), ""))
              ELSE ThreadFinish([th EXCEPT !.sp_type = SpType(u, FALSE),
                                           !.sp_status = SpExecMainStatus(u, FALSE)],
                                PollReport(PollOk(th.job_type, th.st, SpType(u, FALSE),
                                                  SpExecMainStatus(u, FALSE)),
                                           th.raise_on_fail))]
    /\ UNCHANGED <<matchVars, waitVars, clientVars, signalVars, timerVars, tjobs, tunits, proxies>>

\* The manager finishes a job: its object is gone and its unit is in its
\* final state.
ThreadJobFinish(j) ==
    /\ tjobs[j].exists
    /\ tjobs' = [tjobs EXCEPT ![j].exists = FALSE]
    /\ \E u \in FinalUnits : tunits' = [tunits EXCEPT ![tjobs[j].unit] = u]
    /\ UNCHANGED <<matchVars, waitVars, clientVars, signalVars, timerVars, thread, proxies>>

ThreadStep(t) ==
    \/ ThreadPollProps(t)
    \/ ThreadPollLoop(t)
    \/ ThreadPollSleep(t)
    \/ ThreadResolve(t)
    \/ ThreadLookup(t)
    \/ ThreadFetch(t)
    \/ ThreadMake(t)
    \/ ThreadStore(t)
    \/ ThreadGet(t)
    \/ ThreadSvc(t)

\* The thread variables where no threads are modelled.
NoThreads ==
    /\ tjobs = [j \in Threads |-> [exists |-> FALSE, type |-> "start", unit |-> UnitA]]
    /\ tunits = [n \in ThreadUnits |-> NoUnit]
    /\ thread = [t \in Threads |-> [NewThread(t, FALSE) EXCEPT !.pc = "none"]]
    /\ proxies = << >>

\* The signal variable where no signal is modelled.
NoSignals == cb = NoCb

\* The client variables where no client operation is modelled.
NoClient ==
    /\ mgr_unit = [loaded |-> FALSE, installed |-> FALSE, active_state |-> "",
                   sub_state |-> ""]
    /\ conn = NoConn
    /\ op = IdleOp
    /\ NoSignals
    /\ NoTimer
    /\ NoThreads

\* The wait variables where no wait is modelled.
NoWait ==
    /\ now = 0
    /\ glib = FALSE
    /\ job = [exists |-> TRUE, type |-> "start"]
    /\ unit = NoUnit
    /\ client = [i \in Waiters |-> NewClient(FALSE)]
    /\ inbox = [i \in Waiters |-> {}]
    /\ wait = [i \in Waiters |-> IdleWait("dispatch", NoneF, TRUE)]

\* The match variables where no discovery is modelled.
NoMatch ==
    /\ mgr_units = << >>
    /\ mgr_unit_files = << >>
    /\ match_args = NoCall
    /\ match_out = << >>
    /\ match_err = ""

\* One client and one wait call, by any entry, for a job just issued.  A client
\* opened with use_glib has GLib; wait_job is entered directly on such a
\* client, or where GLib is missing.
InitWait ==
    /\ NoMatch
    /\ NoClient
    /\ now = 0
    /\ glib \in BOOLEAN
    /\ job \in [exists : {TRUE}, type : JobTypes]
    /\ unit = NoUnit
    /\ inbox = [i \in Waiters |-> {}]
    /\ \E ge \in BOOLEAN, entry \in {"dispatch", "wait_job"},
          t \in Timeouts, r \in BOOLEAN :
         /\ ge => glib
         /\ entry = "wait_job" => (ge \/ ~glib)
         /\ client = [i \in Waiters |-> NewClient(ge)]
         /\ wait = [i \in Waiters |-> IdleWait(entry, t, r)]

NextWait == (\E i \in Waiters : WaitStep(i)) \/ JobFinish \/ OtherJobRemoved \/ Tick

SpecWait == InitWait /\ [][NextWait]_vars

\* The calls that touch the subscription of one client, in any order around
\* one wait: subscribe, unsubscribe, on_unit_properties_changed and a
\* wait_job the caller enters directly, for the shorter deadlines.
SubscriptionTimeouts == {NoneF, 1}

InitSubscription ==
    /\ InitWait
    /\ \A i \in Waiters :
         /\ wait[i].entry = "wait_job"
         /\ wait[i].timeout_sec \in SubscriptionTimeouts

SubscriptionStep(i) ==
    \/ SubscribeCall(i)
    \/ Unsubscribe(i)
    \/ OnUnitPropertiesChangedBy(i)

NextSubscription == NextWait \/ (\E i \in Waiters : SubscriptionStep(i))

SpecSubscription == InitSubscription /\ [][NextSubscription]_vars

\* The waits where every step that can be taken is taken in the end: the
\* client's code runs on, the manager finishes the job it was given, and time
\* passes.
SpecWaitFair ==
    /\ SpecWait
    /\ WF_vars(\E i \in Waiters : WaitStep(i))
    /\ WF_vars(JobFinish)
    /\ WF_vars(Tick)

\* A client from before its construction on, and the unit its operations
\* name, as the manager holds it.
InitClient ==
    /\ NoMatch
    /\ now = 0
    /\ glib \in BOOLEAN
    /\ job = [exists |-> TRUE, type |-> "start"]
    /\ unit = NoUnit
    /\ client = [i \in Waiters |-> NewClient(FALSE)]
    /\ inbox = [i \in Waiters |-> {}]
    /\ wait = [i \in Waiters |-> IdleWait("dispatch", NoneF, TRUE)]
    /\ mgr_unit \in ManagedUnits
    /\ conn = NoConn
    /\ op = IdleOp
    /\ NoSignals
    /\ NoTimer
    /\ NoThreads

NextClient ==
    \/ Open
    \/ Close
    \/ Exists
    \/ EnsureLoaded
    \/ UnitState
    \/ GetUnitProperties
    \/ GetServiceProperties
    \/ Listing
    \/ Lifecycle
    \/ OnUnitPropertiesChanged
    \/ Off

SpecClient == InitClient /\ [][NextClient]_vars

\* The client, its property-change handlers and the manager's signals.
InitSignals == InitClient

NextSignals ==
    \/ Open
    \/ Close
    \/ OnUnitPropertiesChanged
    \/ Off
    \/ PropertiesChanged

SpecSignals == InitSignals /\ [][NextSignals]_vars

\* Runs of the systemd_timer module on one timer_path, where there is no file
\* at first or a file somebody else wrote.
ForeignFile == [exists |-> TRUE, text |-> <<91, 85, 110, 105, 116, 93, CR, LF>>]

InitTimer ==
    /\ NoMatch
    /\ NoWait
    /\ mgr_unit = [loaded |-> FALSE, installed |-> FALSE, active_state |-> "",
                   sub_state |-> ""]
    /\ conn = NoConn
    /\ op = IdleOp
    /\ NoSignals
    /\ NoThreads
    /\ disk \in {Absent, ForeignFile}
    /\ run = NoRun

NextTimer ==
    \/ RunPresent
    \/ RunAbsent

SpecTimer == InitTimer /\ [][NextTimer]_vars

\* Two threads on one open client, each about to wait by polling for a job
\* of its own that the manager still runs; the jobs work on one unit or on
\* two.
InitThreads ==
    /\ NoMatch
    /\ NoWait
    /\ mgr_unit = [loaded |-> FALSE, installed |-> FALSE, active_state |-> "",
                   sub_state |-> ""]
    /\ conn = [NoConn EXCEPT !.bus = "open"]
    /\ op = IdleOp
    /\ NoSignals
    /\ NoTimer
    /\ tjobs \in [Threads -> [exists : {TRUE}, type : JobTypes, unit : ThreadUnits]]
    /\ tunits = [n \in ThreadUnits |-> StartingUnit]
    /\ \E r \in BOOLEAN : thread = [t \in Threads |-> NewThread(t, r)]
    /\ proxies = << >>

NextThreads == (\E t \in Threads : ThreadStep(t)) \/ (\E j \in Threads : ThreadJobFinish(j))

SpecThreads == InitThreads /\ [][NextThreads]_vars

(***************************************************************************)
(* Properties of the waits.                                                 *)
(***************************************************************************)
\* What a finished wait call reported: "done", "failed" or "timeout-wait"
\* (returned or raised as JobFailedError), or "error" for a mapped bus error.
\* No fault of BusFaults maps to JobFailedError.
OutcomeOf(w) ==
    IF w.pc # "done" THEN ""
    ELSE IF w.ret # "" THEN w.ret
    ELSE IF w.exc = "JobFailedError"
         THEN IF w.exc_result = "timeout-wait" THEN "timeout-wait" ELSE "failed"
    ELSE "error"

\* Whether the outcome was returned or raised as raise_on_fail asks.
AsAsked(w) ==
    IF OutcomeOf(w) \in {"failed", "timeout-wait"} /\ w.raise_on_fail
    THEN w.exc = "JobFailedError" /\ w.ret = ""
    ELSE w.exc = "" /\ w.ret = OutcomeOf(w)

\* A polling wait that went through the heuristic evaluation of an existing
\* unit and reported done or failed.
PollJudged(i) ==
    /\ wait[i].pc = "done"
    /\ wait[i].strategy = "poll"
    /\ unit.exists
    /\ OutcomeOf(wait[i]) \in {"done", "failed"}

\* C5: when a deadline was asked for (timeout_sec not None, 0 included) and the
\* job still exists once it has elapsed, the wait ends with timeout-wait,
\* under both strategies: a polling wait at the head of its loop does not go on
\* to sleep or to the evaluation, and an event-driven wait that returns
\* reports timeout-wait, returned or raised as raise_on_fail asks.
C5_DeadlineEndsWait ==
    [][\A i \in Waiters :
          /\ (/\ wait[i].pc = "poll_loop"
              /\ wait[i].timeout_sec # NoneF
              /\ now >= wait[i].t0 + wait[i].timeout_sec
              /\ job.exists
              /\ job'.exists)
             => wait'[i].pc \in {"poll_loop", "done"}
          /\ (/\ wait[i].pc \in {"poll_loop", "loop"}
              /\ wait'[i].pc = "done"
              /\ wait[i].timeout_sec # NoneF
              /\ job.exists
              /\ OutcomeOf(wait'[i]) # "error")
             => OutcomeOf(wait'[i]) = "timeout-wait" /\ AsAsked(wait'[i])
      ]_vars

\* C6: a polling wait on a stop job reports done if and only if the unit's
\* active state, once the job is gone, is inactive or failed; a stop job whose
\* unit is finally active yields failed.
C6_StopDoneIffNotActive ==
    \A i \in Waiters :
        (PollJudged(i) /\ job.type = "stop") =>
            (OutcomeOf(wait[i]) = "done" <=> unit.active_state \in {"inactive", "failed"})

\* C7: a polling wait on a job that is not a stop job reports done whenever
\* the unit is finally active, and otherwise, for a oneshot service, reports
\* done if and only if ExecMainStatus is zero.
C7_NonStopActiveOrOneshot ==
    \A i \in Waiters :
        (PollJudged(i) /\ job.type # "stop") =>
            IF unit.active_state = "active"
            THEN OutcomeOf(wait[i]) = "done"
            ELSE unit.type = "oneshot" =>
                    (OutcomeOf(wait[i]) = "done" <=> unit.exec_status = 0)

\* The decision table of the polling strategy, on the unit's final state.
DecisionTable(job_type, u) ==
    CASE job_type = "stop" -> u.active_state \in {"inactive", "failed"}
      [] job_type # "stop" /\ u.active_state = "active" -> TRUE
      [] job_type # "stop" /\ u.active_state # "active" /\ u.type = "oneshot" ->
            u.exec_status = 0
      [] OTHER -> u.active_state # "failed"

\* C8: the outcome of a polling wait is exactly the decision table: stop ->
\* state in {inactive, failed}; else active; else oneshot -> exit status 0;
\* else state # failed.
C8_ExactlyDecisionTable ==
    \A i \in Waiters :
        PollJudged(i) =>
            (OutcomeOf(wait[i]) = "done" <=> DecisionTable(job.type, unit))

\* An event-driven wait that returned on a JobRemoved notification for its
\* job (result keeps the string the notification carried).
EventNotified(i) ==
    /\ wait[i].pc = "done"
    /\ wait[i].strategy = "event"
    /\ wait[i].result \in JobResults

\* C9: the event-driven wait maps the result of the notification: "done"
\* yields done, any other result yields failed, raised as JobFailedError when
\* raise_on_fail and returned as "failed" otherwise.
C9_EventResultMapping ==
    \A i \in Waiters :
        EventNotified(i) =>
            IF wait[i].result = "done"
            THEN wait[i].ret = "done" /\ wait[i].exc = ""
            ELSE IF wait[i].raise_on_fail
            THEN wait[i].exc = "JobFailedError" /\ wait[i].ret = ""
            ELSE wait[i].ret = "failed" /\ wait[i].exc = ""

\* An event-driven wait with raise_on_fail false that returned "failed" for
\* the result "canceled".
C9_Witness ==
    \E i \in Waiters :
        /\ EventNotified(i)
        /\ wait[i].result = "canceled"
        /\ ~wait[i].raise_on_fail
        /\ wait[i].ret = "failed"

\* What wait_job_poll reports for the job and unit that the manager holds,
\* when every call is answered.
PollingWouldReport(raise_on_fail) ==
    PollReport(PollOk(job.type, PollActiveState(unit, ""), SpType(unit, FALSE),
                      SpExecMainStatus(unit, FALSE)), raise_on_fail)

\* C10 as claimed: for the same job, unit and manager behaviour the call
\* yields the same outcome, returned or raised alike, under either strategy:
\* what an event-driven wait reports on the job's removal is what the
\* polling strategy reports for that job and unit.
C10_SameOutcomeEitherStrategy ==
    \A i \in Waiters :
        (EventNotified(i) /\ unit.exists) =>
            /\ wait[i].ret = PollingWouldReport(wait[i].raise_on_fail).ret
            /\ wait[i].exc = PollingWouldReport(wait[i].raise_on_fail).exc

\* C10 as amended: the strategies agree in the form of the outcome only.  A
\* wait that ends ends with a mapped bus error, or with done, failed or
\* timeout-wait: done returned, failed and timeout-wait raised as
\* JobFailedError when raise_on_fail and returned as the plain value otherwise.
C10_SameOutcomeForm ==
    \A i \in Waiters :
        wait[i].pc = "done" =>
            \/ /\ OutcomeOf(wait[i]) = "error"
               /\ wait[i].strategy = "poll"
               /\ wait[i].exc \in {"UnitNotFoundError", "AccessDeniedError", "DBusIOError"}
            \/ /\ OutcomeOf(wait[i]) \in {"done", "failed", "timeout-wait"}
               /\ AsAsked(wait[i])

\* An event-driven wait that reported failed, as asked, for a job and unit
\* for which the polling strategy reports done.
C10_Witness ==
    \E i \in Waiters :
        /\ EventNotified(i)
        /\ unit.exists
        /\ OutcomeOf(wait[i]) = "failed"
        /\ AsAsked(wait[i])
        /\ PollingWouldReport(wait[i].raise_on_fail).ret = "done"

InitMatch ==
    /\ \E n \in 0..MaxRows :
         /\ mgr_units \in SeqsUpTo(UnitRows, n)
         /\ mgr_unit_files \in SeqsUpTo(FileRowSet, MaxRows - n)
    /\ match_args = NoCall
    /\ match_out = << >>
    /\ match_err = ""
    /\ NoWait
    /\ NoClient

\* match_units(...) with both listings answered.  The call reads nothing of
\* the client but the two listings, so one call per behaviour shows them all.
MatchUnits ==
    \E p \in PatternLists, t \in TypeSets, fl \in {0, IGNORECASE}, inc \in BOOLEAN :
        /\ ~match_args.called
        /\ match_args' = [called |-> TRUE, patterns |-> p, types |-> t, flags |-> fl,
                          include_inactive_files |-> inc]
        /\ match_out' = match_units(mgr_units, mgr_unit_files, p, t, fl, inc)
        /\ match_err' = ""
        /\ UNCHANGED <<mgr_units, mgr_unit_files, waitVars, clientVars, signalVars, timerVars, threadVars>>

\* match_units(...) when ListUnits() or ListUnitFiles() ends in a bus fault:
\* list_units / list_unit_files raise the mapped error and nothing is returned.
MatchUnitsFault ==
    \E p \in PatternLists, t \in TypeSets, fl \in {0, IGNORECASE}, inc \in BOOLEAN,
       fault \in {AccessDenied, NoReply} :
        /\ ~match_args.called
        /\ match_args' = [called |-> TRUE, patterns |-> p, types |-> t, flags |-> fl,
                          include_inactive_files |-> inc]
        /\ match_out' = << >>
        /\ match_err' = map_dbus_error(fault)
        /\ UNCHANGED <<mgr_units, mgr_unit_files, waitVars, clientVars, signalVars, timerVars, threadVars>>

NextMatch == MatchUnits \/ MatchUnitsFault

SpecMatch == InitMatch /\ [][NextMatch]_vars

(***************************************************************************)
(* Properties of match_units.                                               *)
(***************************************************************************)
Returned == match_args.called /\ match_err = ""

\* Python's "<" on two strings, character by character.
RECURSIVE PyLess(_, _)
PyLess(a, b) ==
    IF b = << >> THEN FALSE
    ELSE IF a = << >> THEN TRUE
    ELSE IF Head(a) # Head(b) THEN Head(a) < Head(b)
    ELSE PyLess(Tail(a), Tail(b))

OutNames == {match_out[i].name : i \in 1..Len(match_out)}

\* The names of the live listing, and of the unit-file listing, that pass the
\* filter of the call.
LivePassing ==
    {mgr_units[i].name : i \in {k \in 1..Len(mgr_units) :
        PassesFilter(mgr_units[k].name, match_args.patterns, match_args.types,
                     match_args.flags)}}

FilesPassing ==
    {basename_or_name(mgr_unit_files[i].path) : i \in {k \in 1..Len(mgr_unit_files) :
        PassesFilter(basename_or_name(mgr_unit_files[k].path), match_args.patterns,
                     match_args.types, match_args.flags)}}

\* C1: the list match_units returns is strictly ascending by name (sorted, no
\* two entries of one name), for every live listing and unit-file listing,
\* also when a name occurs in both.
C1_StrictlyAscending ==
    Returned =>
        \A i, j \in 1..Len(match_out) :
            i < j => PyLess(match_out[i].name, match_out[j].name)

\* A call that returned two entries or more, one of them for a name that is in
\* the live listing and in the unit-file listing.
C1_Witness ==
    /\ Returned
    /\ Len(match_out) >= 2
    /\ match_args.include_inactive_files
    /\ OutNames \cap LivePassing \cap FilesPassing # {}

\* C2: an entry for a name that passes the filter in the unit-file listing and
\* is absent from the filtered live listing has active_state "inactive",
\* sub_state "dead" and load_state None.
C2_InstalledOnly ==
    Returned =>
        \A i \in 1..Len(match_out) :
            (match_out[i].name \in FilesPassing \ LivePassing) =>
                /\ match_out[i].active_state = "inactive"
                /\ match_out[i].sub_state = "dead"
                /\ match_out[i].load_state = None

\* A call that emitted an entry for an installed, not loaded unit, beside an
\* entry for a live unit.
C2_Witness ==
    /\ Returned
    /\ \E i, j \in 1..Len(match_out) :
         /\ match_out[i].name \in FilesPassing \ LivePassing
         /\ match_out[j].name \in LivePassing

\* C3: in every entry, is_masked implies not is_enabled, whatever state string
\* the unit-file listing reports.
C3_MaskedNotEnabled ==
    Returned =>
        \A i \in 1..Len(match_out) :
            match_out[i].is_masked => ~match_out[i].is_enabled

\* A call that emitted a masked entry whose state was listed as "Masked".
C3_Witness ==
    /\ Returned
    /\ \E i \in 1..Len(match_out) :
         /\ match_out[i].is_masked
         /\ \E k \in 1..Len(mgr_unit_files) :
              /\ basename_or_name(mgr_unit_files[k].path) = match_out[i].name
              /\ mgr_unit_files[k].state = "Masked"

\* C4: the names of the output are exactly the live names that pass the
\* filter, together with, when include_inactive_files, the basenames of the
\* unit files that pass it; with no pattern the output is empty.
C4_ExactNames ==
    Returned =>
        /\ OutNames = LivePassing \cup
                (IF match_args.include_inactive_files THEN FilesPassing ELSE {})
        /\ (match_args.patterns = << >> => match_out = << >>)

\* A call with include_inactive_files false that returned a live unit while
\* the unit-file listing held a passing name that is not live, and a listed
\* name failed the filter.
C4_Witness ==
    /\ Returned
    /\ ~match_args.include_inactive_files
    /\ match_out # << >>
    /\ FilesPassing \ LivePassing # {}
    /\ \E k \in 1..Len(mgr_units) : mgr_units[k].name \notin LivePassing

(***************************************************************************)
(* Properties of the waits: termination and faults.                         *)
(***************************************************************************)
\* C11: whenever the job has finished, an event-driven wait (entered, and
\* subscribed or with its receiver registered or not yet) returns in the end,
\* also when no deadline was given.
C11_EventWaitReturns ==
    \A i \in Waiters :
        (wait[i].pc \in {"wait_job", "register", "loop"} /\ ~job.exists)
            ~> (wait[i].pc = "done")

\* C12: a bus or transport fault that occurs during a wait is raised as a
\* mapped error: a wait in which a call ended in a fault never returns a
\* status and never raises JobFailedError for it.
C12_WaitFaultsRaised ==
    \A i \in Waiters :
        (wait[i].pc = "done" /\ wait[i].faulted) => OutcomeOf(wait[i]) = "error"

(***************************************************************************)
(* Properties of the client's operations.                                   *)
(***************************************************************************)
\* The unit exists for the manager: it is loaded or can be loaded.
UnitExists == mgr_unit.loaded \/ mgr_unit.installed

\* The error types the faults of a set map to, by the table of the mapping.
MappedTable(f) ==
    CASE f \in {"org.freedesktop.systemd1.NoSuchUnit",
                "org.freedesktop.DBus.Error.UnknownObject"} -> "UnitNotFoundError"
      [] f = "org.freedesktop.DBus.Error.AccessDenied" -> "AccessDeniedError"
      [] f = "org.freedesktop.systemd1.JobFailed" -> "JobFailedError"
      [] OTHER -> "DBusIOError"

MappedFaults(fs) == {MappedTable(f) : f \in fs}

\* C13: active_state / sub_state with a default return the default for a unit
\* that does not exist and only for such a unit (a unit that exists yields its
\* actual state); a failure that is not the unit's non-existence is raised as
\* its mapped error; without a default a missing unit raises
\* UnitNotFoundError.
C13_DefaultIffMissing ==
    op.name \in {"active_state", "sub_state"} =>
        /\ op.how = "returned" =>
              IF UnitExists
              THEN op.ret = (IF op.name = "active_state" THEN mgr_unit.active_state
                             ELSE mgr_unit.sub_state)
              ELSE op.arg # None /\ op.ret = op.arg
        /\ op.how = "raised" =>
              \/ ~UnitExists /\ op.arg = None /\ op.exc = "UnitNotFoundError"
              \/ op.faults # {} /\ op.exc \in MappedFaults(op.faults)

\* The default was put in for a unit that does not exist.
C13_Witness ==
    /\ op.name = "sub_state"
    /\ op.how = "returned"
    /\ ~UnitExists
    /\ op.ret = "inactive"
    /\ op.bus = "open"

\* C14: but for active_state and sub_state called with a default, an operation
\* in which a bus call ended in a fault raises the mapped error of the fault:
\* it does not return.
C14_FaultsPropagate ==
    (/\ op.name \notin {"", "init", "close"}
     /\ ~(op.name \in {"active_state", "sub_state"} /\ op.arg # None)
     /\ op.faults # {})
        => (op.how = "raised" /\ op.exc \in MappedFaults(op.faults))

\* C15: close() returns, in any state of the client; after it the connection
\* is closed, no handler is registered or tracked and the cache is empty; a
\* close() after a close() changes nothing.
C15_CloseIdempotent ==
    [][op'.name = "close" =>
          /\ op'.how = "returned"
          /\ conn'.bus = "closed"
          /\ conn'.receivers = {}
          /\ conn'.signal_handlers = {}
          /\ conn'.cache = {}
          /\ op.name = "close" => conn' = conn
      ]_vars

\* A close() that found a registered handler and a cached proxy to release.
C15_Witness ==
    /\ op.name = "close"
    /\ {"receivers", "handlers", "cache"} \subseteq op.keys
    /\ conn.bus = "closed"

\* C16: an operation other than close() called after close() raises one of
\* the client's error types, and returns nothing.
C16_FailFastAfterClose ==
    (op.bus = "closed" /\ op.name # "close") =>
        (op.how = "raised" /\ op.exc \in SystemdErrors)

\* C17: a client asked for with use_glib while the event loop is not
\* available fails with ConnectionError and no bus is opened; without
\* use_glib the outcome does not depend on the event loop.
C17_NoEventLoopConnectionError ==
    op.name = "init" =>
        /\ (op.arg = "use_glib" /\ ~glib) =>
              (op.how = "raised" /\ op.exc = "ConnectionError" /\ conn.bus = "none")
        /\ op.arg = "" => op.exc \notin {"ConnectionError", "RuntimeError"}

\* C18: a lifecycle or install operation makes exactly one manager call; when
\* the call is answered the reply is returned (the job path, the install
\* changes, nothing for reset_failed and daemon_reload); when it ends in a
\* fault the mapped error is raised, with no other call.
C18_OneManagerCall ==
    op.name \in LifecycleOps =>
        /\ op.calls = 1
        /\ op.faults = {} =>
              /\ op.how = "returned"
              /\ op.name \in JobOps => op.ret = JobPath
              /\ op.name \in InstallOps => op.ret \in {"changes", "carries, changes"}
              /\ op.name \in PlainOps => op.ret = None
        /\ op.faults # {} =>
              (op.how = "raised" /\ op.exc \in MappedFaults(op.faults))

\* restart ended in a fault of its one call.
C18_Witness ==
    /\ op.name = "restart"
    /\ op.how = "raised"
    /\ op.exc = "AccessDeniedError"
    /\ op.calls = 1

\* C19: the error an operation raises for a fault is given by the name of the
\* fault alone: NoSuchUnit and UnknownObject give UnitNotFoundError,
\* AccessDenied gives AccessDeniedError, JobFailed gives JobFailedError, and
\* any other name, a missing one too, gives DBusIOError.
C19_ErrorMapping ==
    (op.name \in LifecycleOps /\ op.how = "raised") =>
        \A f \in op.faults :
            op.exc = (CASE f \in {NoSuchUnit, UnknownObject} -> "UnitNotFoundError"
                        [] f = AccessDenied -> "AccessDeniedError"
                        [] f = JobFailed -> "JobFailedError"
                        [] OTHER -> "DBusIOError")

\* A fault without a name was raised as the transport error.
C19_Witness ==
    /\ op.name = "stop"
    /\ op.how = "raised"
    /\ op.faults = {None}
    /\ op.exc = "DBusIOError"

\* C20: exists(unit, installed_ok) is true if and only if the unit is loaded,
\* or installed_ok is set and a unit file for it is on disk.
C20_ExistsIff ==
    op.name = "exists" =>
        (op.ret = "True"
            <=> (mgr_unit.loaded \/ (op.arg = "installed_ok" /\ mgr_unit.installed)))

(***************************************************************************)
(* Properties of the waits: what ends a wait, the race of notification and  *)
(* timer, the fallback and the dispatch.                                    *)
(***************************************************************************)
\* C24: a wait reports done or failed only when the job is gone: a polling
\* wait after a read of State failed with UnknownObject or NoSuchJob, an
\* event-driven wait after a JobRemoved notification of the job; while the
\* job exists a wait ends with timeout-wait (or a mapped bus error) only.
C24_NoVerdictWhileJobExists ==
    \A i \in Waiters :
        OutcomeOf(wait[i]) \in {"done", "failed"} =>
            /\ ~job.exists
            /\ wait[i].strategy = "event" => wait[i].result \in JobResults

\* An event-driven wait with a deadline that returned done on the
\* notification.
C24_Witness ==
    \E i \in Waiters :
        /\ wait[i].strategy = "event"
        /\ wait[i].timeout_sec # NoneF
        /\ OutcomeOf(wait[i]) = "done"
        /\ ~job.exists

\* C25: in an event-driven wait, once the notification or the timer has
\* recorded its result, the other one firing afterwards does not change it.
C25_FirstRecordedResultStays ==
    [][\A i \in Waiters :
          (wait[i].pc = "loop" /\ wait[i].result # None)
              => wait'[i].result = wait[i].result
      ]_vars

\* C26: when an event-driven wait has returned or raised, its JobRemoved
\* receiver is no longer registered and its timer no longer pending.
C26_TornDownOnReturn ==
    \A i \in Waiters :
        (wait[i].pc = "done" /\ wait[i].strategy = "event") =>
            (~client[i].receiver /\ wait[i].timer = NoneF)

\* C27: a wait called with timeout_sec=None never reports timeout-wait, under
\* either strategy.
C27_NoDeadlineNoTimeout ==
    \A i \in Waiters :
        (wait[i].pc = "done" /\ wait[i].timeout_sec = NoneF)
            => OutcomeOf(wait[i]) # "timeout-wait"

\* A polling wait without a deadline that ended on the job's disappearance
\* and reported failed.
C27_Witness ==
    \E i \in Waiters :
        /\ wait[i].timeout_sec = NoneF
        /\ wait[i].strategy = "poll"
        /\ OutcomeOf(wait[i]) = "failed"

\* C28: when wait_job finds the client not subscribed and Subscribe() fails,
\* the call goes on as a polling wait with the same timeout_sec and
\* raise_on_fail, the error of the subscription does not end the call, and the
\* client stays unsubscribed.
C28_SubscribeFailureFallsBack ==
    [][\A i \in Waiters :
          (wait[i].pc = "wait_job" /\ wait'[i].pc # "wait_job") =>
              /\ wait'[i].pc \in {"register", "wait_job_poll"}
              /\ (wait'[i].faulted /\ ~wait[i].faulted) =>
                    /\ wait'[i].pc = "wait_job_poll"
                    /\ ~client'[i].signals_enabled
                    /\ wait'[i].timeout_sec = wait[i].timeout_sec
                    /\ wait'[i].raise_on_fail = wait[i].raise_on_fail
      ]_vars

\* A polling wait that wait_job fell back to, completed, on a client that is
\* still not subscribed.
C28_Witness ==
    \E i \in Waiters :
        /\ glib
        /\ wait[i].faulted
        /\ wait[i].strategy = "poll"
        /\ wait[i].entry = "wait_job"
        /\ OutcomeOf(wait[i]) = "done"
        /\ ~client[i].signals_enabled

\* C29: the dispatch of a *_wait operation goes to the event-driven strategy
\* exactly when the client was opened with the event loop and GLib is there,
\* to the polling strategy otherwise, with timeout_sec and raise_on_fail as
\* they were given.
C29_DispatchChoice ==
    [][\A i \in Waiters :
          (wait[i].pc = "idle" /\ wait'[i].pc # "idle" /\ wait[i].entry = "dispatch") =>
              /\ wait'[i].pc = (IF client[i].glib_enabled /\ glib
                                THEN "wait_job" ELSE "wait_job_poll")
              /\ wait'[i].timeout_sec = wait[i].timeout_sec
              /\ wait'[i].raise_on_fail = wait[i].raise_on_fail
      ]_vars

\* A *_wait operation on a client without the event loop, where GLib is
\* there, went to the polling strategy.
C29_Witness ==
    \E i \in Waiters :
        /\ wait[i].entry = "dispatch"
        /\ wait[i].pc = "wait_job_poll"
        /\ glib
        /\ ~client[i].glib_enabled

\* C30: a polling wait in which no call ended in a bus fault reports done,
\* failed or timeout-wait, whenever the job finished: also when the job was
\* gone before the wait's first read of it.
C30_AlwaysTerminalOutcome ==
    \A i \in Waiters :
        (wait[i].pc = "done" /\ wait[i].strategy = "poll" /\ ~wait[i].faulted)
            => OutcomeOf(wait[i]) \in {"done", "failed", "timeout-wait"}

(***************************************************************************)
(* Properties of the property-change handlers.                              *)
(***************************************************************************)
\* C21: a callback registered with on_unit_properties_changed is called only
\* for a PropertiesChanged signal of the Unit interface on the unit's object
\* path, with exactly the changed properties its filter names (all of them
\* when the filter is empty), never with an empty payload, and only while its
\* receiver is registered on an open connection: not after _off() or close().
C21_CallbackFiltered ==
    [][\A c \in cb'.calls :
          cb' # cb =>
              /\ cb'.interface = IFACE_UNIT
              /\ cb'.path = UnitPath
              /\ c.payload = {k \in cb'.changed :
                                conn.rule[c.h].wanted = {}
                                    \/ k \in conn.rule[c.h].wanted}
              /\ c.payload # {}
              /\ c.h \in conn.receivers
              /\ conn.bus = "open"
      ]_vars

\* A callback was called with a part of the changed properties: its filter
\* left one out.
C21_Witness ==
    \E c \in cb.calls :
        /\ c.payload # {}
        /\ c.payload # cb.changed
        /\ c.h \in conn.receivers

(***************************************************************************)
(* Properties of the systemd_timer module.                                  *)
(***************************************************************************)
\* C22: a run with state=present, not in check mode, that repeats the run
\* before it (same parameters) writes nothing and reports changed=false.
C22_SecondRunIdle ==
    (run.again /\ run.state = "present" /\ ~run.check_mode)
        => (~run.changed /\ ~run.wrote)

\* The accepted spellings of OnCalendar in the timer parameter, and the values
\* the caller gave under them.
OnCalendarSpellings == {S_OnCalendar, S_on_calendar}

GivenOnCalendar(params) ==
    {params.timer[i].value : i \in {k \in 1..Len(params.timer) :
                                       params.timer[k].key \in OnCalendarSpellings}}

\* C23: when the timer parameter has OnCalendar, in either accepted spelling,
\* the OnCalendar of the rendered [Timer] section is the caller's value and
\* not the expressions made from schedule/schedules.
C23_OnCalendarOverrides ==
    (run.state = "present" /\ GivenOnCalendar(run.params) # {})
        => DictGet(run.section, S_OnCalendar) \in GivenOnCalendar(run.params)

(***************************************************************************)
(* Properties of the waits: notifications of other jobs, and the heuristic  *)
(* evaluation on a failed and on a missing unit.                            *)
(***************************************************************************)
\* C36: while an event-driven wait is in its loop, the dispatch of a
\* JobRemoved of another job leaves the wait as it is (no result, not quit);
\* a result is recorded only from a JobRemoved of the job waited on or by the
\* wait's own timer, and the wait reports that result.
C36_OnlyOwnNotificationEndsWait ==
    [][\A i \in Waiters :
          (wait[i].pc = "loop" /\ wait'[i].pc = "loop" /\ inbox'[i] # inbox[i]
              /\ inbox'[i] \subseteq inbox[i]) =>
             LET s == CHOOSE x \in inbox[i] : x \notin inbox'[i]
             IN IF s.path = JobPath
                THEN wait'[i].result = s.result /\ wait'[i].quit
                ELSE /\ wait'[i].result = wait[i].result
                     /\ wait'[i].quit = wait[i].quit
      ]_vars

\* An event-driven wait that saw a JobRemoved of another job, with result
\* done, went on waiting, and reported failed from its own job's notification.
C36_Witness ==
    \E i \in Waiters :
        /\ wait[i].others
        /\ wait[i].strategy = "event"
        /\ wait[i].result \in JobResults \ {"done"}
        /\ OutcomeOf(wait[i]) = "failed"

\* A polling wait on a job that is not a stop job, ended, whose unit is
\* finally in active state failed.
PollOnFailedUnit(i) ==
    /\ wait[i].pc = "done"
    /\ wait[i].strategy = "poll"
    /\ job.type # "stop"
    /\ ~job.exists
    /\ unit.exists
    /\ unit.active_state = "failed"

\* C37, as stated: a polling wait on a non-stop job whose unit ends failed
\* never reports done.
C37_FailedUnitNeverDone ==
    \A i \in Waiters :
        PollOnFailedUnit(i) => OutcomeOf(wait[i]) # "done"

\* C37, amended: a polling wait on a non-stop job whose unit ends failed
\* reports done only for a oneshot service whose ExecMainStatus is zero or
\* could not be read; when it reports failed, it returns or raises as
\* raise_on_fail asks.
C37_FailedUnitDoneOnlyOneshot ==
    \A i \in Waiters :
        PollOnFailedUnit(i) =>
            /\ OutcomeOf(wait[i]) = "done" =>
                  (unit.type = "oneshot" /\ (unit.exec_status = 0 \/ wait[i].faulted))
            /\ OutcomeOf(wait[i]) = "failed" => AsAsked(wait[i])

\* A polling wait on a non-stop job reported failed, raised, for a failed
\* unit that is not a oneshot service.
C37_Witness ==
    \E i \in Waiters :
        /\ PollOnFailedUnit(i)
        /\ unit.type # "oneshot"
        /\ ~wait[i].faulted
        /\ OutcomeOf(wait[i]) = "failed"
        /\ wait[i].exc = "JobFailedError"

\* C38: a polling wait on a stop job that ended without a bus fault and
\* before its deadline, the unit being gone with the job, reports done: no
\* UnitNotFoundError (nor another error) reaches the caller.
C38_StopOfMissingUnitDone ==
    \A i \in Waiters :
        (/\ wait[i].pc = "done"
         /\ wait[i].strategy = "poll"
         /\ job.type = "stop"
         /\ ~job.exists
         /\ ~unit.exists
         /\ ~wait[i].faulted
         /\ OutcomeOf(wait[i]) # "timeout-wait")
            => (OutcomeOf(wait[i]) = "done" /\ wait[i].ret = "done")

(***************************************************************************)
(* Properties of the resolution of a unit's path and of the cache.          *)
(***************************************************************************)
\* The calls of a resolution: GetUnit, and LoadUnit only after GetUnit
\* failed; the path of the call that succeeded.
ResolvedInOrder ==
    /\ op.calls \in {1, 2}
    /\ op.calls = 1 => (op.how = "returned" /\ mgr_unit.loaded /\ op.faults = {})
    /\ (op.calls = 2 /\ op.bus = "open") => (~mgr_unit.loaded \/ op.faults # {})
    /\ op.how = "returned" => op.ret = UnitPath
    /\ op.faults = {} => (op.how = "returned" <=> UnitExists)

\* C31, as stated: a resolution tries GetUnit, then LoadUnit only when GetUnit
\* failed, returns the path of the first that succeeds, and fails with
\* UnitNotFoundError when neither succeeds.
C31_ResolveOrUnitNotFound ==
    op.name = "ensure_loaded" =>
        /\ ResolvedInOrder
        /\ op.how = "raised" => op.exc = "UnitNotFoundError"

\* C31, amended: when neither call succeeds the resolution fails with the
\* error the failure of LoadUnit maps to: UnitNotFoundError for a unit the
\* manager does not know, the mapped error of the fault otherwise.
C31_ResolveOrMappedError ==
    op.name = "ensure_loaded" =>
        /\ ResolvedInOrder
        /\ op.how = "raised" =>
              \/ ~UnitExists /\ op.exc = "UnitNotFoundError"
              \/ op.faults # {} /\ op.exc \in MappedFaults(op.faults)

\* GetUnit failed for a unit that is not loaded and LoadUnit gave its path.
C31_Witness ==
    /\ op.name = "ensure_loaded"
    /\ op.how = "returned"
    /\ op.calls = 2
    /\ op.faults = {}
    /\ ~mgr_unit.loaded
    /\ op.ret = UnitPath

\* The operations that read a unit's properties through the cached proxy.
PropertyReads == {"active_state", "sub_state", "get_unit_properties"}

LastLiveRow(name) ==
    LET rows == {k \in 1..Len(mgr_units) : mgr_units[k].name = name}
    IN IF rows = {} THEN 0 ELSE CHOOSE k \in rows : \A j \in rows : j <= k

\* The install state the manager's unit-file listing records for the name:
\* the state of the last row whose file has that basename, in lower case;
\* None when there is no such row or its state is empty.
ListedInstallState(name) ==
    LET rows == {k \in 1..Len(mgr_unit_files) :
                    basename_or_name(mgr_unit_files[k].path) = name}
        last == CHOOSE k \in rows : \A j \in rows : j <= k
    IN IF rows = {} \/ mgr_unit_files[last].state = "" THEN None
       ELSE Lower(mgr_unit_files[last].state)

\* The entry st is that of a live name with install state fs: the runtime
\* fields are those of the live row and the flags follow from fs.
LiveEntry(st, fs) ==
    LET u == mgr_units[LastLiveRow(st.name)]
    IN /\ st.description = u.description
       /\ st.active_state = u.active_state
       /\ st.sub_state = u.sub_state
       /\ st.load_state = u.load_state
       /\ st.unit_file_state = fs
       /\ st.is_masked = (fs = "masked")
       /\ st.is_enabled = (fs \in ENABLED_STATES /\ fs # "masked")

AbsentReturned == run.called /\ run.state = "absent" /\ ~run.failed

\* The run removed the file: it was there when the run began and is not now.
RemovedByRun == run.existed /\ ~disk.exists

C39_FlagIsLastAnsweredCall ==
    \A i \in Waiters :
        /\ client[i].signals_enabled <=> client[i].subscribed
        /\ ~client[i].resubscribed

\* A wait_job on a client with GLib whose Subscribe() failed, so that it
\* polled; afterwards on_unit_properties_changed subscribed and registered a
\* receiver, and unsubscribe cleared the flag again.
C39_Witness ==
    \E i \in Waiters :
        /\ wait[i].pc = "done"
        /\ wait[i].entry = "wait_job"
        /\ glib
        /\ wait[i].strategy # "event"
        /\ client[i].props_receivers = 1
        /\ ~client[i].signals_enabled

(***************************************************************************)
(* Properties of the polling waits of several threads.                      *)
(***************************************************************************)
\* The outcome wait_job_poll has for a job of the type whose unit was read
\* as st, sp_type, sp_status.
OwnOutcome(th, type) ==
    IF th.job_type = "" THEN th.exc = "UnitNotFoundError"
    ELSE /\ th.job_type = type
         /\ \/ th.exc = "UnitNotFoundError" /\ NeedsServiceProps(type, th.st)
            \/ [ret |-> th.ret, exc |-> th.exc, exc_result |-> th.exc_result]
                  = PollReport(PollOk(type, th.st, th.sp_type, th.sp_status),
                               th.raise_on_fail)

\* C34: of polling waits that run at once in several threads on one client,
\* each for its own job path, each is answered from its own job and that
\* job's unit only and reports the outcome that follows from them; reads of
\* one unit's property that find the cache empty together leave exactly one
\* cache entry for the unit's path, and every reader holds an interface bound
\* to that path.
C34_OwnOutcomeOneCacheEntry ==
    /\ \A t \in Threads :
          /\ thread[t].jobs_read \subseteq {t}
          /\ thread[t].units_read \subseteq {tjobs[t].unit}
          /\ thread[t].pc = "done" => OwnOutcome(thread[t], tjobs[t].type)
          /\ thread[t].props # 0 =>
                /\ proxies[thread[t].props] = PathOfUnit(tjobs[t].unit)
                /\ thread[t].pc # "store" =>
                      Cardinality(Cached(conn.cache, PathOfUnit(tjobs[t].unit))) = 1
    /\ \A e \in conn.cache :
          /\ Cardinality(Cached(conn.cache, e.path)) = 1
          /\ proxies[e.iface] = e.path

\* Both threads waited for jobs of one unit, both found the cache without
\* its path and made a proxy, and both are done: the start job and the stop
\* job with different results.
C34_Witness ==
    /\ \A t \in Threads : thread[t].pc = "done" /\ thread[t].exc = ""
    /\ tjobs[1].unit = tjobs[2].unit
    /\ tjobs[1].type # tjobs[2].type
    /\ thread[1].props # 0 /\ thread[2].props # 0
    /\ thread[1].props # thread[2].props
    /\ thread[1].ret # thread[2].ret
====
